---- MODULE Spec2Model ----
(***************************************************************************)
(* Build orchestrator: Pipeline DAG and scheduler (Pipeline.run and its    *)
(* three execution strategies) and the per-item cache envelope             *)
(* (PipelineNode.withCache).                                               *)
(***************************************************************************)
EXTENDS Integers, Sequences, FiniteSets, TLC

(***************************************************************************)
(* Bounds of the model.                                                    *)
(***************************************************************************)
\* deepest nesting of maps and lists around a config value
MaxNest == 2
\* longest item list handed to withCache
MaxItems == 2

(***************************************************************************)
(* The pipeline under study: three nodes added with addNode, and one node  *)
(* object that is referenced but was never added.                          *)
(***************************************************************************)
Nodes == {"a", "b", "c"}
addNodeOrder == <<"a", "b", "c">>
Ghost == "ghost"
NoError == "none"
OutputNames == {"out", "other"}
\* every node's run emits NodeOutput records under this one output name
EmittedNames == {"out"}

Range(s) == {s[i] : i \in 1..Len(s)}

RECURSIVE Concat(_)
Concat(ss) == IF ss = <<>> THEN <<>> ELSE Head(ss) \o Concat(Tail(ss))

(***************************************************************************)
(* Config values.  Every value is a record of one shape so that values can *)
(* be compared: a primitive, a node-output reference from(node, name), a   *)
(* plain object (map) or an array (list) of values.                        *)
(***************************************************************************)
Prim == [kind |-> "prim", node |-> "", name |-> "", kids |-> <<>>]
from(n, o) == [kind |-> "ref", node |-> n, name |-> o, kids |-> <<>>]
MapOf(vs) == [kind |-> "map", node |-> "", name |-> "", kids |-> vs]
ListOf(vs) == [kind |-> "list", node |-> "", name |-> "", kids |-> vs]

inputIsNodeOutputReference(v) == v.kind = "ref"

RECURSIVE Wrap(_, _)
Wrap(ws, v) ==
    IF ws = <<>> THEN v
    ELSE IF Head(ws) = "map" THEN MapOf(<<Prim, Wrap(Tail(ws), v)>>)
    ELSE ListOf(<<Prim, Wrap(Tail(ws), v)>>)

Wrappers == UNION {[1..k -> {"map", "list"}] : k \in 0..MaxNest}

\* node.config.config of a node holding one reference at some nesting
ConfigWith(ws, n, o) == MapOf(<<Wrap(ws, from(n, o))>>)
PlainConfig == MapOf(<<Prim>>)

VARIABLES
    executionMode,          \* Pipeline.executionMode
    config,                 \* node name -> node.config.config
    explicitDependencies,   \* node name -> node.config.explicitDependencies
    graph,                  \* edges <<consumer, producer>> of the DepGraph
    pc,                     \* position of Pipeline.run
    executionOrder,         \* run: const executionOrder
    supervisorInterval,     \* the supervisor timer is armed
    poolTerminated,         \* workerPool.terminate() was called
    runResult,              \* error that run re-raises (NoError: none)
    nodeState,              \* node name -> position of its run
    runCount,               \* node name -> number of invocations of node.run
    nodeOutputs,            \* Pipeline.nodeOutputs (set of emitted names, or absent)
    seqIndex,               \* executeSequential: loop index
    waveIndex,              \* executeParallel: index into sortedWaves
    waveActive,             \* executeParallel: Promise.all of the wave is pending
    pending, inProgress, completed, errors,   \* executeDynamic locals
    thenQueue,              \* executeDynamic: .then reactions not yet run
    failOrder               \* history: nodes in the order their run failed

pvars == <<executionMode, config, explicitDependencies, graph, pc, executionOrder,
           supervisorInterval, poolTerminated, runResult, nodeState, runCount,
           nodeOutputs, seqIndex, waveIndex, waveActive, pending, inProgress,
           completed, errors, thenQueue, failOrder>>

VARIABLES
    contentSignature,       \* withCache: const contentSignature, per calling node
    items,                  \* withCache: items, per calling node
    getCacheKey,            \* withCache: getCacheKey, item -> cache key
    cacheStore,             \* the entries of the cache directory, by <<signature, key>>
    truncated,              \* the cache files cut to length zero and not yet written
    setCacheState,          \* calling node -> item index -> state of its setCache call
    envelopePc,             \* calling node -> position of its withCache call
    loopIndex,              \* withCache phase 1: loop variable i
    cacheMisses,            \* withCache: cacheMisses, as item indexes
    workState,              \* calling node -> item index -> state of its work promise
    stored,                 \* calling node -> item indexes whose setCache completed
    results,                \* withCache: const results, per calling node
    processedItems,         \* withCache: what each work promise resolved with
    lookupLog,              \* calling node -> item index -> outcome of its Phase 1 lookup
    fileContent,            \* file system: input-side file -> its bytes (or missing)
    fileTimestamp,          \* file system: input-side file -> mtimeMs
    outputFiles,            \* file system: the generated files that exist
    upstreamOutputs,        \* what the upstream producer currently emits
    outputFilenameMapping,  \* outputConfig.outputFilenameMapping of the calling nodes
    resultDocuments,        \* whether the stylesheet writes an xsl:result-document
    runsLeft,               \* calls of withCache still to come
    changesLeft             \* file system changes still to come

envelopeVars == <<contentSignature, items, getCacheKey, cacheStore, truncated,
                  setCacheState, envelopePc,
                  loopIndex, cacheMisses, workState, stored, results, processedItems,
                  lookupLog, fileContent, fileTimestamp, outputFiles, upstreamOutputs,
                  outputFilenameMapping, resultDocuments, runsLeft, changesLeft>>

\* the worker pool
VARIABLES
    workers,                \* WorkerPool.workers
    activeJobs,             \* WorkerPool.activeJobs: worker -> job (or none)
    queue,                  \* WorkerPool.queue
    mailbox,                \* worker thread -> the jobs posted to it and not yet done
    workerAlive,            \* worker thread -> it has neither thrown nor been terminated
    events,                 \* worker -> its events that the pool has not handled yet
    submitted,              \* number of execute calls so far
    dispatchedTo,           \* job -> the worker it was handed to (or none)
    settled,                \* job -> state of the promise execute returned
    settledWith             \* history: job -> the job whose reply or error settled it

poolVars == <<workers, activeJobs, queue, mailbox, workerAlive, events, submitted,
              dispatchedTo, settled, settledWith>>

\* the functions of PipelineNode that are applied to a node and its config
VARIABLES
    signatureNodes,         \* the two nodes whose getContentSignature is called
    contentSignatures,      \* node index -> what getContentSignature returned (or none)
    shapingInput,           \* calculateOutputPath: the cleaned path and the outputConfig
    outputPath,             \* calculateOutputPath: what it returned (or none)
    configReferences,       \* withCache: the references of this.config.config, in order
    recordedUpstream,       \* the upstream signatures of the entry built (or none)
    cacheDirectory,         \* CacheManager: path of a cache file -> who put it (or none)
    gotten                  \* CacheManager: the last getCache call and what it returned

signatureVars == <<signatureNodes, contentSignatures>>
shapingVars == <<shapingInput, outputPath>>
upstreamVars == <<configReferences, recordedUpstream>>
directoryVars == <<cacheDirectory, gotten>>
functionVars == <<signatureVars, shapingVars, upstreamVars, directoryVars>>

\* what the actions of Pipeline.run leave alone, what those of withCache do,
\* and what those of the worker pool do
outsidePipeline == <<envelopeVars, poolVars, functionVars>>
outsideEnvelope == <<pvars, poolVars, functionVars>>
outsidePool == <<pvars, envelopeVars, functionVars>>

vars == <<pvars, envelopeVars, poolVars, functionVars>>

Absent == {"absent"}

(***************************************************************************)
(* The dependency-graph library as Pipeline uses it.                       *)
(***************************************************************************)
hasNode(n) == n \in Nodes

outgoingEdges(E, n) == SelectSeq(addNodeOrder, LAMBDA d : <<n, d>> \in E)

RECURSIVE reach(_, _, _)
reach(E, frontier, seen) ==
    LET next == {d \in Nodes : \E f \in frontier : <<f, d>> \in E} \ seen
    IN IF next = {} THEN seen ELSE reach(E, next, seen \cup next)

\* DepGraph.dependenciesOf: all transitive dependencies
dependenciesOfIn(E, n) == reach(E, {n}, {})

\* variant: only a node that depends on itself directly is reported
CycleFoundSelfLoopOnly(E) == \E n \in Nodes : <<n, n>> \in E

\* the cycle check every DepGraph traversal makes
CycleFound(E) == \E n \in Nodes : n \in dependenciesOfIn(E, n)

RECURSIVE DFS(_, _, _, _)
DFS(E, todo, result, path) ==
    IF todo = <<>> THEN result
    ELSE LET n == Head(todo)
             r1 == IF n \in Range(result) \/ n \in path THEN result
                   ELSE Append(DFS(E, outgoingEdges(E, n), result, path \cup {n}), n)
         IN DFS(E, Tail(todo), r1, path)

\* DepGraph.overallOrder once the cycle check has passed
overallOrder(E) ==
    LET roots == SelectSeq(addNodeOrder, LAMBDA n : ~\E m \in Nodes : <<m, n>> \in E)
        first == DFS(E, roots, <<>>, {})
    IN DFS(E, SelectSeq(addNodeOrder, LAMBDA n : n \notin Range(first)), first, {})

\* DepGraph.addDependency over a list of <<from, to>> pairs, stopping at the
\* first pair that throws
RECURSIVE addDependency(_, _)
addDependency(E, pairs) ==
    IF pairs = <<>> THEN [graph |-> E, error |-> NoError]
    ELSE IF ~hasNode(Head(pairs)[2]) THEN [graph |-> E, error |-> "unknownDependency"]
    ELSE addDependency(E \cup {Head(pairs)}, Tail(pairs))

(***************************************************************************)
(* Pipeline.setupExplicitDependencies / setupAutomaticDependencies         *)
(***************************************************************************)
\* the producers findNodeReferences adds an edge to, in traversal order
RECURSIVE findNodeReferences(_)
findNodeReferences(obj) ==
    IF inputIsNodeOutputReference(obj) THEN <<obj.node>>
    ELSE IF obj.kind = "map"
         THEN Concat([i \in 1..Len(obj.kids) |-> findNodeReferences(obj.kids[i])])
    ELSE <<>>

\* node.config as handed to findNodeReferences: {name, config, explicitDependencies}
NodeConfigObject(n) == MapOf(<<Prim, config[n], ListOf(<<>>)>>)

explicitPairs(order) ==
    Concat([i \in 1..Len(order) |->
        [j \in 1..Len(explicitDependencies[order[i]]) |->
            <<order[i], explicitDependencies[order[i]][j]>>]])

automaticPairs(order) ==
    Concat([i \in 1..Len(order) |->
        LET found == findNodeReferences(NodeConfigObject(order[i]))
        IN [j \in 1..Len(found) |-> <<order[i], found[j]>>]])

(***************************************************************************)
(* Pipeline.calculateWaves                                                 *)
(***************************************************************************)
dependenciesOf(n) == dependenciesOfIn(graph, n)

Max(S) == CHOOSE x \in S : \A y \in S : y <= x

\* getDepth; fuel is the number of nodes, which an acyclic graph never uses up
RECURSIVE getDepthFuel(_, _)
getDepthFuel(n, fuel) ==
    LET deps == dependenciesOf(n)
    IN IF deps = {} \/ fuel = 0 THEN 0
       ELSE Max({getDepthFuel(d, fuel - 1) : d \in deps}) + 1

getDepth(n) == getDepthFuel(n, Cardinality(Nodes))

\* waveMap: depth -> the nodes pushed under it
calculateWaves(d) == {n \in Range(executionOrder) : getDepth(n) = d}

RECURSIVE SortAscending(_)
SortAscending(S) ==
    IF S = {} THEN <<>>
    ELSE LET m == CHOOSE x \in S : \A y \in S : x <= y
         IN <<m>> \o SortAscending(S \ {m})

\* executeParallel: sortedWaves, as the sequence of wave numbers
sortedWaves == SortAscending({getDepth(n) : n \in Range(executionOrder)})

(***************************************************************************)
(* context.resolveInput for a node-output reference, and the references a  *)
(* node resolves while it runs (withCache: processConfigValue).            *)
(***************************************************************************)
RECURSIVE processConfigValue(_)
processConfigValue(value) ==
    IF inputIsNodeOutputReference(value) THEN {value}
    ELSE UNION {processConfigValue(value.kids[i]) : i \in 1..Len(value.kids)}

\* variant: the output name is not looked up
resolveInputOkAnyName(ref) ==
    /\ ref.node \in Nodes
    /\ nodeOutputs[ref.node] # Absent

resolveInputOk(ref) ==
    /\ ref.node \in Nodes
    /\ nodeOutputs[ref.node] # Absent
    /\ ref.name \in nodeOutputs[ref.node]

(***************************************************************************)
(* The per-item cache envelope: two nodes that run at the same time, each  *)
(* in one call of withCache.                                               *)
(***************************************************************************)
Callers == {"a", "b"}
Items == {"i1", "i2"}
Keys == {"k1", "k2"}
Signatures == {"s1", "s2"}

\* the files the nodes read: the items, a file reference of the config and a
\* file the stylesheet loads at run time
ConfigFile == "cfg"
DiscoveredFile == "disc"
InputFiles == Items \cup {ConfigFile, DiscoveredFile}
Contents == {"v1", "v2"}
NoFile == "missing"
Timestamps == {"t1", "t2"}
UpstreamOutputs == {"u1", "u2"}
OutputKeys == <<"transformed", "result-documents">>
Undefined == <<"undefined">>
Null == [item |-> "", outputs |-> <<>>, cached |-> FALSE]

(***************************************************************************)
(* node:path, on paths as sequences of segments                            *)
(***************************************************************************)
RECURSIVE normalizeFrom(_, _)
normalizeFrom(done, rest) ==
    IF rest = <<>> THEN done
    ELSE IF Head(rest) = ".." /\ done # <<>> /\ done[Len(done)] # ".."
         THEN normalizeFrom(SubSeq(done, 1, Len(done) - 1), Tail(rest))
         ELSE normalizeFrom(Append(done, Head(rest)), Tail(rest))

join(base, rel) == normalizeFrom(<<>>, base \o rel)

dirname(p) == SubSeq(p, 1, Len(p) - 1)

RECURSIVE commonPrefixLength(_, _)
commonPrefixLength(p, q) ==
    IF p = <<>> \/ q = <<>> \/ Head(p) # Head(q) THEN 0
    ELSE 1 + commonPrefixLength(Tail(p), Tail(q))

relative(fromDir, to) ==
    LET k == commonPrefixLength(fromDir, to)
    IN [i \in 1..(Len(fromDir) - k) |-> ".."] \o SubSeq(to, k + 1, Len(to))

\* relativePath.startsWith('..')
startsWithDotDot(rel) == rel # <<>> /\ rel[1] = ".."

(***************************************************************************)
(* The functions a transform node hands to withCache                       *)
(***************************************************************************)
buildDir == <<"build">>

getOutputDir(c) == join(buildDir, <<c>>)

getTransformedPath(c, item) ==
    join(getOutputDir(c),
         IF outputFilenameMapping = "plain" THEN <<item>> ELSE <<"..", item>>)

\* getOutputPath(item, outputKey) without a filename
getOutputPath(c, item, outputKey) ==
    IF outputKey = "transformed" THEN getTransformedPath(c, item) ELSE Undefined

\* what performWork(item) resolves with when the transform succeeds
performWorkOutputs(c, item) ==
    [k \in Range(OutputKeys) |->
        IF k = "transformed" THEN <<getTransformedPath(c, item)>>
        ELSE IF resultDocuments
             THEN <<Append(dirname(getTransformedPath(c, item)), "doc")>>
             ELSE <<>>]

\* the files a successful transform has written
writtenFiles(outputs) == UNION {Range(outputs[k]) : k \in Range(OutputKeys)}

(***************************************************************************)
(* CacheManager                                                            *)
(***************************************************************************)
fileExists(p) == fileContent[p] # NoFile

computeFileHash(p) == <<"sha256", fileContent[p]>>

computeOutputSignature(outputs) == <<"sha256", outputs>>

\* the paths of a sequence that can be hashed, in order
RECURSIVE hashable(_)
hashable(paths) ==
    IF paths = <<>> THEN <<>>
    ELSE IF fileExists(Head(paths)) THEN <<Head(paths)>> \o hashable(Tail(paths))
         ELSE hashable(Tail(paths))

hashConfigDependencies(configDependencyPaths) ==
    [i \in 1..Len(hashable(configDependencyPaths)) |->
        [path |-> hashable(configDependencyPaths)[i],
         hash |-> computeFileHash(hashable(configDependencyPaths)[i])]]

\* buildCacheEntry: implicit dependencies that cannot be hashed are skipped
implicitDeps(implicitDependencies) ==
    [i \in 1..Len(hashable(implicitDependencies)) |->
        [path |-> hashable(implicitDependencies)[i],
         hash |-> computeFileHash(hashable(implicitDependencies)[i])]]

\* buildCacheEntry rejects when an input file cannot be hashed or stat'ed
buildCacheEntryRejects(inputPaths) == \E i \in 1..Len(inputPaths) : ~fileExists(inputPaths[i])

\* by, builtFrom and advertised are not fields of the entry file: they record
\* who built the entry, the bytes of the files it was built from and the
\* discovered dependencies the work reported
buildCacheEntry(inputPaths, outputs, outputBaseDir, itemKey, implicitDependencies, configDependencyPaths, upstreamOutputSignatures, builder) ==
    [inputPaths |-> inputPaths,
     inputHashes |-> [i \in 1..Len(inputPaths) |-> computeFileHash(inputPaths[i])],
     inputTimestamps |-> [i \in 1..Len(inputPaths) |-> fileTimestamp[inputPaths[i]]],
     outputsByKey |-> outputs,
     outputBaseDir |-> outputBaseDir,
     dependencies |-> hashConfigDependencies(configDependencyPaths),
     implicitDependencies |-> implicitDeps(implicitDependencies),
     upstreamSignatures |-> upstreamOutputSignatures,
     itemKey |-> itemKey,
     by |-> builder,
     builtFrom |-> fileContent,
     advertised |-> implicitDependencies]

NoEntry ==
    [inputPaths |-> <<>>, inputHashes |-> <<>>, inputTimestamps |-> <<>>,
     outputsByKey |-> <<>>, outputBaseDir |-> <<>>, dependencies |-> <<>>,
     implicitDependencies |-> <<>>, upstreamSignatures |-> <<>>, itemKey |-> "",
     by |-> "", builtFrom |-> <<>>, advertised |-> <<>>]

outputPaths(entry) ==
    entry.outputsByKey["transformed"] \o entry.outputsByKey["result-documents"]

\* isValid, first loop: fs.access of every output path
RECURSIVE outputsExist(_)
outputsExist(paths) ==
    IF paths = <<>> THEN TRUE
    ELSE IF Head(paths) \notin outputFiles THEN FALSE
         ELSE outputsExist(Tail(paths))

\* variant: a changed timestamp alone invalidates
inputUnchangedByTimestampOnly(entry, i) ==
    /\ fileExists(entry.inputPaths[i])
    /\ fileTimestamp[entry.inputPaths[i]] = entry.inputTimestamps[i]

\* isValid, second loop, one input: timestamp first, then the hash
inputUnchanged(entry, i) ==
    IF ~fileExists(entry.inputPaths[i]) THEN FALSE
    ELSE IF fileTimestamp[entry.inputPaths[i]] = entry.inputTimestamps[i] THEN TRUE
         ELSE computeFileHash(entry.inputPaths[i]) = entry.inputHashes[i]

RECURSIVE inputsUnchanged(_, _)
inputsUnchanged(entry, i) ==
    IF i > Len(entry.inputPaths) THEN TRUE
    ELSE IF ~inputUnchanged(entry, i) THEN FALSE
         ELSE inputsUnchanged(entry, i + 1)

\* variant: a dependency that is missing is passed over
dependencyUnchangedOrMissing(dep) ==
    fileExists(dep.path) => computeFileHash(dep.path) = dep.hash

\* isValid, third loop, one dependency
dependencyUnchanged(dep) ==
    IF ~fileExists(dep.path) THEN FALSE
    ELSE computeFileHash(dep.path) = dep.hash

RECURSIVE dependenciesUnchanged(_)
dependenciesUnchanged(allDeps) ==
    IF allDeps = <<>> THEN TRUE
    ELSE IF ~dependencyUnchanged(Head(allDeps)) THEN FALSE
         ELSE dependenciesUnchanged(Tail(allDeps))

\* the check of the recorded upstream signatures
upstreamSignaturesMatch(entry) ==
    \A i \in 1..Len(entry.upstreamSignatures) :
        entry.upstreamSignatures[i].signature = computeOutputSignature(upstreamOutputs)

isValid(entry) ==
    IF ~outputsExist(outputPaths(entry)) THEN FALSE
    ELSE IF ~inputsUnchanged(entry, 1) THEN FALSE
    ELSE IF ~dependenciesUnchanged(entry.dependencies \o entry.implicitDependencies) THEN FALSE
    ELSE upstreamSignaturesMatch(entry)

(***************************************************************************)
(* Initial state: a freshly constructed pipeline, run() just called.       *)
(***************************************************************************)
ConfigsOfA == {PlainConfig, ConfigWith(<<>>, "c", "out")}
ConfigsOfB == {PlainConfig, ConfigWith(<<>>, "a", "out"), ConfigWith(<<"list">>, "a", "out")}
ConfigsOfC == {PlainConfig} \cup
    {ConfigWith(ws, t, o) : ws \in Wrappers, t \in {"a", "b", Ghost}, o \in OutputNames}

(***************************************************************************)
(* WorkerPool                                                              *)
(***************************************************************************)
poolSize == 2
MaxJobs == 4

Workers == 1..poolSize
Jobs == 1..MaxJobs
NoJob == 0
NoWorker == 0

\* no call of getContentSignature or calculateOutputPath is modelled
FunctionsIdle ==
    /\ signatureNodes = <<>>
    /\ contentSignatures = <<>>
    /\ shapingInput = <<>>
    /\ outputPath = <<>>
    /\ configReferences = <<>>
    /\ recordedUpstream = <<>>
    /\ cacheDirectory = <<>>
    /\ gotten = <<>>

\* new WorkerPool(poolSize, workerPath): no job has been submitted
PoolConstructed ==
    /\ workers = [i \in 1..poolSize |-> i]
    /\ activeJobs = [w \in Workers |-> NoJob]
    /\ queue = <<>>
    /\ mailbox = [w \in Workers |-> <<>>]
    /\ workerAlive = [w \in Workers |-> TRUE]
    /\ events = [w \in Workers |-> <<>>]
    /\ submitted = 0
    /\ dispatchedTo = [j \in Jobs |-> NoWorker]
    /\ settled = [j \in Jobs |-> "not submitted"]
    /\ settledWith = [j \in Jobs |-> NoJob]

\* no withCache call is modelled
EnvelopeIdle ==
    /\ contentSignature = [c \in Callers |-> "s1"]
    /\ items = [c \in Callers |-> <<>>]
    /\ getCacheKey = [i \in Items |-> "k1"]
    /\ cacheStore = [sk \in Signatures \X Keys |-> NoEntry]
    /\ truncated = {}
    /\ setCacheState = [c \in Callers |-> <<>>]
    /\ envelopePc = [c \in Callers |-> "idle"]
    /\ loopIndex = [c \in Callers |-> 1]
    /\ cacheMisses = [c \in Callers |-> <<>>]
    /\ workState = [c \in Callers |-> <<>>]
    /\ stored = [c \in Callers |-> {}]
    /\ results = [c \in Callers |-> <<>>]
    /\ processedItems = [c \in Callers |-> <<>>]
    /\ lookupLog = [c \in Callers |-> <<>>]
    /\ fileContent = [p \in InputFiles |-> "v1"]
    /\ fileTimestamp = [p \in InputFiles |-> "t1"]
    /\ outputFiles = {}
    /\ upstreamOutputs = "u1"
    /\ outputFilenameMapping = "plain"
    /\ resultDocuments = FALSE
    /\ runsLeft = 0
    /\ changesLeft = 0

Init ==
    /\ EnvelopeIdle
    /\ PoolConstructed
    /\ FunctionsIdle
    /\ executionMode \in {"sequential", "parallel", "dynamic"}
    /\ \E ca \in ConfigsOfA, cb \in ConfigsOfB, cc \in ConfigsOfC :
          config = [n \in Nodes |-> IF n = "a" THEN ca ELSE IF n = "b" THEN cb ELSE cc]
    /\ \E ea \in {<<>>, <<"c">>}, ec \in {<<>>, <<"a">>, <<"b">>, <<Ghost>>} :
          explicitDependencies =
              [n \in Nodes |-> IF n = "a" THEN ea ELSE IF n = "c" THEN ec ELSE <<>>]
    /\ graph = {}
    /\ pc = "setupExplicitDependencies"
    /\ executionOrder = <<>>
    /\ supervisorInterval = FALSE
    /\ poolTerminated = FALSE
    /\ runResult = NoError
    /\ nodeState = [n \in Nodes |-> "pending"]
    /\ runCount = [n \in Nodes |-> 0]
    /\ nodeOutputs = [n \in Nodes |-> Absent]
    /\ seqIndex = 1
    /\ waveIndex = 1
    /\ waveActive = FALSE
    /\ pending = {}
    /\ inProgress = {}
    /\ completed = {}
    /\ errors = <<>>
    /\ thenQueue = {}
    /\ failOrder = <<>>

pipelineConfig == <<executionMode, config, explicitDependencies>>
nodeVars == <<nodeState, runCount, nodeOutputs, failOrder>>
seqVars == <<seqIndex>>
parVars == <<waveIndex, waveActive>>
dynVars == <<pending, inProgress, completed, errors, thenQueue>>
schedVars == <<seqVars, parVars, dynVars>>

(***************************************************************************)
(* Pipeline.run: dependency setup (outside the try block)                  *)
(***************************************************************************)
setupExplicitDependencies ==
    /\ pc = "setupExplicitDependencies"
    /\ IF CycleFound(graph)
       THEN /\ pc' = "raised"
            /\ runResult' = "cycle"
            /\ graph' = graph
       ELSE LET r == addDependency(graph, explicitPairs(overallOrder(graph)))
            IN /\ graph' = r.graph
               /\ runResult' = r.error
               /\ pc' = IF r.error = NoError THEN "setupAutomaticDependencies" ELSE "raised"
    /\ UNCHANGED <<pipelineConfig, outsidePipeline, executionOrder, supervisorInterval, poolTerminated,
                   nodeVars, schedVars>>

setupAutomaticDependencies ==
    /\ pc = "setupAutomaticDependencies"
    /\ IF CycleFound(graph)
       THEN /\ pc' = "raised"
            /\ runResult' = "cycle"
            /\ graph' = graph
       ELSE LET r == addDependency(graph, automaticPairs(overallOrder(graph)))
            IN /\ graph' = r.graph
               /\ runResult' = r.error
               /\ pc' = IF r.error = NoError THEN "overallOrder" ELSE "raised"
    /\ UNCHANGED <<pipelineConfig, outsidePipeline, executionOrder, supervisorInterval, poolTerminated,
                   nodeVars, schedVars>>

\* const executionOrder = this.graph.overallOrder(); setInterval(...)
computeExecutionOrder ==
    /\ pc = "overallOrder"
    /\ IF CycleFound(graph)
       THEN /\ pc' = "raised"
            /\ runResult' = "cycle"
            /\ UNCHANGED <<executionOrder, supervisorInterval>>
       ELSE /\ executionOrder' = overallOrder(graph)
            /\ supervisorInterval' = TRUE
            /\ pc' = "execute"
            /\ runResult' = runResult
    /\ UNCHANGED <<pipelineConfig, outsidePipeline, graph, poolTerminated, nodeVars, schedVars>>

(***************************************************************************)
(* A node's run.  node.run(context) is invoked ("resolving"), resolves the *)
(* references of its config, does its work ("working") and returns its     *)
(* output or throws.                                                       *)
(***************************************************************************)
Running(n) == nodeState[n] \in {"resolving", "working"}

\* the nodes in S have run(context) invoked
InvokeRun(S) ==
    /\ nodeState' = [n \in Nodes |-> IF n \in S THEN "resolving" ELSE nodeState[n]]
    /\ runCount' = [n \in Nodes |-> IF n \in S THEN runCount[n] + 1 ELSE runCount[n]]

(***************************************************************************)
(* executeDynamic                                                          *)
(***************************************************************************)
\* variant: a dependency that is still running counts as complete
isReadyCountingInProgress(nodeName) ==
    \A dep \in dependenciesOf(nodeName) : dep \in completed \cup inProgress

isReady(nodeName) == \A dep \in dependenciesOf(nodeName) : dep \in completed

\* variant: the node is not taken out of the candidates when it starts
startsNodeNotOnlyPending(nodeName) ==
    nodeName \notin inProgress /\ isReady(nodeName)

\* the test of startReadyNodes on one node of its loop
startsNode(nodeName) ==
    nodeName \in pending /\ nodeName \notin inProgress /\ isReady(nodeName)

\* variant: the loop of startReadyNodes ends with the first node it starts
startReadyNodesFirstOnly ==
    LET ready == {n \in Nodes : startsNode(n)}
        started == IF ready = {} THEN {}
                   ELSE {CHOOSE n \in ready : TRUE}
    IN /\ pending' = pending \ started
       /\ inProgress' = inProgress \cup started
       /\ InvokeRun(started)

startReadyNodes ==
    LET started == {n \in Nodes : startsNode(n)}
    IN /\ pending' = pending \ started
       /\ inProgress' = inProgress \cup started
       /\ InvokeRun(started)

\* variant: the reaction does not look at the recorded errors
thenStartsNodesAlways == TRUE

\* the .then reaction of runNode(nodeName): start the next nodes or not
thenStartsNodes == Len(errors) = 0

\* variant: the most recent error is raised
dynamicThrownLast == IF Len(errors) > 0 THEN errors[Len(errors)] ELSE NoError

\* what executeDynamic raises after its wait loop
dynamicThrown == IF Len(errors) > 0 THEN errors[1] ELSE NoError

\* variant: the wait loop goes on while nodes are pending, failure or not
waitLoopConditionWhilePending ==
    Cardinality(inProgress) > 0 \/ Cardinality(pending) > 0

\* the condition of the wait loop
waitLoopCondition ==
    Cardinality(inProgress) > 0 \/ (Cardinality(pending) > 0 /\ Len(errors) = 0)

\* executeDynamic up to its first await: the locals and the initial kick-off
executeDynamic ==
    /\ pc = "execute"
    /\ executionMode = "dynamic"
    /\ LET started == {n \in Range(executionOrder) : isReady(n)}
       IN /\ pending' = Range(executionOrder) \ started
          /\ inProgress' = started
          /\ InvokeRun(started)
    /\ pc' = "waitLoop"
    /\ UNCHANGED <<pipelineConfig, outsidePipeline, graph, executionOrder, supervisorInterval,
                   poolTerminated, runResult, nodeOutputs, failOrder, seqVars, parVars,
                   completed, errors, thenQueue>>

thenReaction(n) ==
    /\ n \in thenQueue
    /\ thenQueue' = thenQueue \ {n}
    /\ IF thenStartsNodes
       THEN startReadyNodes
       ELSE UNCHANGED <<pending, inProgress, nodeState, runCount>>
    /\ UNCHANGED <<pipelineConfig, outsidePipeline, graph, pc, executionOrder, supervisorInterval,
                   poolTerminated, runResult, nodeOutputs, failOrder, seqVars, parVars,
                   completed, errors>>

waitLoopExit ==
    /\ pc = "waitLoop"
    /\ thenQueue = {}
    /\ ~waitLoopCondition
    /\ runResult' = dynamicThrown
    /\ pc' = "finally"
    /\ UNCHANGED <<pipelineConfig, outsidePipeline, graph, executionOrder, supervisorInterval,
                   poolTerminated, nodeVars, schedVars>>

(***************************************************************************)
(* executeSequential                                                       *)
(***************************************************************************)
executeSequentialStart ==
    /\ pc = "execute"
    /\ executionMode = "sequential"
    /\ seqIndex <= Len(executionOrder)
    /\ nodeState[executionOrder[seqIndex]] = "pending"
    /\ InvokeRun({executionOrder[seqIndex]})
    /\ UNCHANGED <<pipelineConfig, outsidePipeline, graph, pc, executionOrder, supervisorInterval,
                   poolTerminated, runResult, nodeOutputs, failOrder, schedVars>>

executeSequentialReturn ==
    /\ pc = "execute"
    /\ executionMode = "sequential"
    /\ seqIndex > Len(executionOrder)
    /\ pc' = "finally"
    /\ UNCHANGED <<pipelineConfig, outsidePipeline, graph, executionOrder, supervisorInterval,
                   poolTerminated, runResult, nodeVars, schedVars>>

(***************************************************************************)
(* executeParallel                                                         *)
(***************************************************************************)
\* the nodes of the wave that waveIndex points at
currentWave == calculateWaves(sortedWaves[waveIndex])

executeParallelStartWave ==
    /\ pc = "execute"
    /\ executionMode = "parallel"
    /\ ~waveActive
    /\ waveIndex <= Len(sortedWaves)
    /\ InvokeRun(currentWave)
    /\ waveActive' = TRUE
    /\ UNCHANGED <<pipelineConfig, outsidePipeline, graph, pc, executionOrder, supervisorInterval,
                   poolTerminated, runResult, nodeOutputs, failOrder, seqVars,
                   waveIndex, dynVars>>

\* variant: the next wave follows as soon as one node of the wave is done
executeParallelWaveCompleteFirstDone ==
    /\ pc = "execute"
    /\ executionMode = "parallel"
    /\ waveActive
    /\ \E n \in currentWave : nodeState[n] = "done"
    /\ waveActive' = FALSE
    /\ waveIndex' = waveIndex + 1
    /\ UNCHANGED <<pipelineConfig, outsidePipeline, graph, pc, executionOrder, supervisorInterval,
                   poolTerminated, runResult, nodeVars, seqVars, dynVars>>

\* Promise.all of the wave fulfils
executeParallelWaveComplete ==
    /\ pc = "execute"
    /\ executionMode = "parallel"
    /\ waveActive
    /\ \A n \in currentWave : nodeState[n] = "done"
    /\ waveActive' = FALSE
    /\ waveIndex' = waveIndex + 1
    /\ UNCHANGED <<pipelineConfig, outsidePipeline, graph, pc, executionOrder, supervisorInterval,
                   poolTerminated, runResult, nodeVars, seqVars, dynVars>>

executeParallelReturn ==
    /\ pc = "execute"
    /\ executionMode = "parallel"
    /\ ~waveActive
    /\ waveIndex > Len(sortedWaves)
    /\ pc' = "finally"
    /\ UNCHANGED <<pipelineConfig, outsidePipeline, graph, executionOrder, supervisorInterval,
                   poolTerminated, runResult, nodeVars, schedVars>>

(***************************************************************************)
(* The end of a node's run, as each strategy handles it.                   *)
(***************************************************************************)
\* try { output = await node.run(context); this.nodeOutputs.set(...) }
runReturned(n) ==
    /\ nodeState' = [nodeState EXCEPT ![n] = "done"]
    /\ nodeOutputs' = [nodeOutputs EXCEPT ![n] = EmittedNames]
    /\ CASE executionMode = "sequential" ->
              /\ seqIndex' = seqIndex + 1
              /\ UNCHANGED <<dynVars>>
         [] executionMode = "parallel" ->
              UNCHANGED <<seqIndex, dynVars>>
         [] executionMode = "dynamic" ->
              /\ inProgress' = inProgress \ {n}
              /\ completed' = completed \cup {n}
              /\ thenQueue' = thenQueue \cup {n}
              /\ UNCHANGED <<seqIndex, pending, errors>>
    /\ UNCHANGED <<pipelineConfig, outsidePipeline, graph, pc, executionOrder, supervisorInterval,
                   poolTerminated, runResult, runCount, failOrder, parVars>>

\* variant: the entry of the node is written before its run throws
runThrewAfterOutput(n) ==
    /\ nodeState' = [nodeState EXCEPT ![n] = "failed"]
    /\ failOrder' = Append(failOrder, n)
    /\ nodeOutputs' = [nodeOutputs EXCEPT ![n] = EmittedNames]
    /\ CASE executionMode = "sequential" ->
              /\ pc' = "finally"
              /\ runResult' = n
              /\ UNCHANGED <<dynVars>>
         [] executionMode = "parallel" ->
              /\ pc' = IF pc = "execute" THEN "finally" ELSE pc
              /\ runResult' = IF pc = "execute" THEN n ELSE runResult
              /\ UNCHANGED <<dynVars>>
         [] executionMode = "dynamic" ->
              /\ errors' = Append(errors, n)
              /\ inProgress' = inProgress \ {n}
              /\ completed' = completed \cup {n}
              /\ UNCHANGED <<pc, runResult, pending, thenQueue>>
    /\ UNCHANGED <<pipelineConfig, outsidePipeline, graph, executionOrder, supervisorInterval,
                   poolTerminated, runCount, seqVars, parVars>>

\* catch (err) { ...; throw err } finally { ... }
runThrew(n) ==
    /\ nodeState' = [nodeState EXCEPT ![n] = "failed"]
    /\ failOrder' = Append(failOrder, n)
    /\ CASE executionMode = "sequential" ->
              /\ pc' = "finally"
              /\ runResult' = n
              /\ UNCHANGED <<dynVars>>
         [] executionMode = "parallel" ->
              \* Promise.all rejects with the first rejection only
              /\ pc' = IF pc = "execute" THEN "finally" ELSE pc
              /\ runResult' = IF pc = "execute" THEN n ELSE runResult
              /\ UNCHANGED <<dynVars>>
         [] executionMode = "dynamic" ->
              /\ errors' = Append(errors, n)
              /\ inProgress' = inProgress \ {n}
              /\ completed' = completed \cup {n}
              /\ UNCHANGED <<pc, runResult, pending, thenQueue>>
    /\ UNCHANGED <<pipelineConfig, outsidePipeline, graph, executionOrder, supervisorInterval,
                   poolTerminated, runCount, nodeOutputs, seqVars, parVars>>

\* the node resolves the references of its config (context.resolveInput)
nodeResolvesInputs(n) ==
    /\ nodeState[n] = "resolving"
    /\ IF \A ref \in processConfigValue(config[n]) : resolveInputOk(ref)
       THEN /\ nodeState' = [nodeState EXCEPT ![n] = "working"]
            /\ UNCHANGED <<pipelineConfig, outsidePipeline, graph, pc, executionOrder, supervisorInterval,
                           poolTerminated, runResult, runCount, nodeOutputs, failOrder,
                           schedVars>>
       ELSE runThrew(n)

nodeRunReturns(n) ==
    /\ nodeState[n] = "working"
    /\ runReturned(n)

\* a workload error
nodeRunThrows(n) ==
    /\ nodeState[n] = "working"
    /\ runThrew(n)

(***************************************************************************)
(* Pipeline.run: finally { clearInterval; await workerPool.terminate() }   *)
(***************************************************************************)
runFinally ==
    /\ pc = "finally"
    /\ supervisorInterval' = FALSE
    /\ poolTerminated' = TRUE
    /\ pc' = IF runResult = NoError THEN "returned" ELSE "raised"
    /\ UNCHANGED <<pipelineConfig, outsidePipeline, graph, executionOrder, runResult, nodeVars, schedVars>>

Next ==
    \/ setupExplicitDependencies
    \/ setupAutomaticDependencies
    \/ computeExecutionOrder
    \/ executeSequentialStart
    \/ executeSequentialReturn
    \/ executeParallelStartWave
    \/ executeParallelWaveComplete
    \/ executeParallelReturn
    \/ executeDynamic
    \/ \E n \in Nodes : thenReaction(n)
    \/ waitLoopExit
    \/ \E n \in Nodes : nodeResolvesInputs(n)
    \/ \E n \in Nodes : nodeRunReturns(n)
    \/ \E n \in Nodes : nodeRunThrows(n)
    \/ runFinally

Spec == Init /\ [][Next]_vars

\* every started node's run finishes, and the event loop runs the reactions
\* and the timer of the wait loop
SpecRunsFinish ==
    /\ Init
    /\ [][Next]_vars
    /\ WF_vars(executeDynamic)
    /\ WF_vars(waitLoopExit)
    /\ \A n \in Nodes :
          /\ WF_vars(nodeResolvesInputs(n) \/ nodeRunReturns(n) \/ nodeRunThrows(n))
          /\ WF_vars(thenReaction(n))

(***************************************************************************)
(* PipelineNode.withCache                                                  *)
(***************************************************************************)
ItemLists(maxLen) == UNION {[1..k -> Items] : k \in 0..maxLen}

\* two nodes are inside node.run at the same time: a state of the dynamic
\* strategy after its kick-off on a pipeline without edges
PipelineRunningNodes ==
    /\ executionMode = "dynamic"
    /\ config = [n \in Nodes |-> PlainConfig]
    /\ explicitDependencies = [n \in Nodes |-> <<>>]
    /\ graph = {}
    /\ pc = "waitLoop"
    /\ executionOrder = addNodeOrder
    /\ supervisorInterval = TRUE
    /\ poolTerminated = FALSE
    /\ runResult = NoError
    /\ nodeState = [n \in Nodes |-> "working"]
    /\ runCount = [n \in Nodes |-> 1]
    /\ nodeOutputs = [n \in Nodes |-> Absent]
    /\ seqIndex = 1
    /\ waveIndex = 1
    /\ waveActive = FALSE
    /\ pending = {}
    /\ inProgress = Nodes
    /\ completed = {}
    /\ errors = <<>>
    /\ thenQueue = {}
    /\ failOrder = <<>>

\* the item a cache key stands for under the one-to-one key function
itemOfKey(k) == IF k = "k1" THEN "i1" ELSE "i2"

\* the entry an earlier run of node a left for an item, built when every file
\* had its first bytes and timestamp
EarlierEntry(k) ==
    [inputPaths |-> <<itemOfKey(k)>>,
     inputHashes |-> << <<"sha256", "v1">> >>,
     inputTimestamps |-> <<"t1">>,
     outputsByKey |-> [key \in Range(OutputKeys) |->
                          IF key = "transformed"
                          THEN << <<"build", "a", itemOfKey(k)>> >> ELSE <<>>],
     outputBaseDir |-> <<"build", "a">>,
     dependencies |-> <<[path |-> ConfigFile, hash |-> <<"sha256", "v1">>]>>,
     implicitDependencies |-> <<>>,
     upstreamSignatures |-> <<[signature |-> <<"sha256", "u1">>, outputKey |-> "out"]>>,
     itemKey |-> k,
     by |-> "earlier run",
     builtFrom |-> [p \in InputFiles |-> "v1"],
     advertised |-> <<>>]

\* the locals of a call of withCache at its entry
callEntered ==
    /\ loopIndex' = [c \in Callers |-> 1]
    /\ cacheMisses' = [c \in Callers |-> <<>>]
    /\ workState' = [c \in Callers |-> [i \in 1..Len(items[c]) |-> "none"]]
    /\ stored' = [c \in Callers |-> {}]
    /\ results' = [c \in Callers |-> [i \in 1..Len(items[c]) |-> Null]]
    /\ processedItems' = [c \in Callers |-> [i \in 1..Len(items[c]) |-> Null]]
    /\ lookupLog' = [c \in Callers |-> [i \in 1..Len(items[c]) |-> "none"]]
    /\ setCacheState' = [c \in Callers |-> [i \in 1..Len(items[c]) |-> "none"]]

InitEnvelope ==
    /\ PipelineRunningNodes
    /\ PoolConstructed
    /\ FunctionsIdle
    /\ \E sb \in Signatures :
          contentSignature = [c \in Callers |-> IF c = "a" THEN "s1" ELSE sb]
    /\ \E ia \in ItemLists(MaxItems), ib \in ItemLists(1) :
          items = [c \in Callers |-> IF c = "a" THEN ia ELSE ib]
    /\ getCacheKey \in {[i \in Items |-> IF i = "i1" THEN "k1" ELSE "k2"],
                        [i \in Items |-> "k1"]}
    /\ \E earlier \in BOOLEAN :
          /\ cacheStore = [sk \in Signatures \X Keys |->
                              IF earlier THEN EarlierEntry(sk[2]) ELSE NoEntry]
          /\ outputFiles = IF earlier THEN {<<"build", "a", i>> : i \in Items} ELSE {}
    /\ \E v \in Contents :
          /\ fileContent = [p \in InputFiles |-> IF p = "i2" THEN v ELSE "v1"]
          /\ fileTimestamp = [p \in InputFiles |->
                                 IF p = "i2" /\ v # "v1" THEN "t2" ELSE "t1"]
    /\ upstreamOutputs = "u1"
    /\ outputFilenameMapping = "plain"
    /\ resultDocuments = FALSE
    /\ runsLeft = 0
    /\ changesLeft = 0
    /\ envelopePc = [c \in Callers |-> "lookup"]
    /\ loopIndex = [c \in Callers |-> 1]
    /\ cacheMisses = [c \in Callers |-> <<>>]
    /\ workState = [c \in Callers |-> [i \in 1..Len(items[c]) |-> "none"]]
    /\ stored = [c \in Callers |-> {}]
    /\ results = [c \in Callers |-> [i \in 1..Len(items[c]) |-> Null]]
    /\ processedItems = [c \in Callers |-> [i \in 1..Len(items[c]) |-> Null]]
    /\ lookupLog = [c \in Callers |-> [i \in 1..Len(items[c]) |-> "none"]]
    /\ truncated = {}
    /\ setCacheState = [c \in Callers |-> [i \in 1..Len(items[c]) |-> "none"]]

\* what a call of withCache reads and never writes
envelopeConfig == <<contentSignature, items, getCacheKey, outputFilenameMapping,
                    resultDocuments>>
inputFileSystem == <<fileContent, fileTimestamp, upstreamOutputs>>
budget == <<runsLeft, changesLeft>>

\* the cache directory and the setCache calls at work on it
cacheFiles == <<cacheStore, truncated, setCacheState>>

cacheKeys(c, i) == getCacheKey[items[c][i]]

\* the cache file that item i of caller c is looked up and stored under
cachePath(c, i) == <<contentSignature[c], cacheKeys(c, i)>>

\* the config of the calling node holds one file reference and one reference
\* to an upstream node, whose outputs are resolved at the entry of withCache
configDependencyPaths == <<ConfigFile>>

upstreamOutputSignatures ==
    <<[signature |-> computeOutputSignature(upstreamOutputs), outputKey |-> "out"]>>

\* Phase 1, the paths of one output key: recalculated, or rebased from the
\* cached structure onto the current output directory
rebased(c, cached, cachedPaths) ==
    [n \in 1..Len(cachedPaths) |->
        join(getOutputDir(c), relative(cached.outputBaseDir, cachedPaths[n]))]

newOutputsByKey(c, item, cached) ==
    [k \in Range(OutputKeys) |->
        IF getOutputPath(c, item, k) # Undefined
        THEN <<getOutputPath(c, item, k)>>
        ELSE rebased(c, cached, cached.outputsByKey[k])]

\* Phase 1 throws: a cached path that cannot be recalculated lies outside the
\* cached base directory
escapesBaseDir(c, item, cached) ==
    \E n \in 1..Len(OutputKeys) :
        /\ getOutputPath(c, item, OutputKeys[n]) = Undefined
        /\ \E m \in 1..Len(cached.outputsByKey[OutputKeys[n]]) :
              startsWithDotDot(relative(cached.outputBaseDir,
                                        cached.outputsByKey[OutputKeys[n]][m]))

\* variant: a hit never copies
needsCopyNever(cachedPath, expectedPath) == FALSE

needsCopy(cachedPath, expectedPath) == cachedPath # expectedPath

\* copyToExpectedPath for every cached path of a hit that differs from the
\* expected one: the files that exist afterwards
copyToExpectedPath(files, cached, expected) ==
    files \cup
    UNION {{expected[k][m] : m \in {n \in 1..Len(cached.outputsByKey[k]) :
                                      /\ n <= Len(expected[k])
                                      /\ needsCopy(cached.outputsByKey[k][n], expected[k][n])}}
           : k \in Range(OutputKeys)}

\* CacheManager.getCache: readFile and JSON.parse; null when the file does not
\* exist, cannot be read or holds no complete JSON text
getCache(sk) == IF sk \in truncated THEN NoEntry ELSE cacheStore[sk]

\* Phase 1, one iteration of the loop: getCache, the expected paths, isValid,
\* and on a hit the copies and the result
lookupItem(c) ==
    /\ envelopePc[c] = "lookup"
    /\ loopIndex[c] <= Len(items[c])
    /\ LET i == loopIndex[c]
           item == items[c][i]
           cached == getCache(cachePath(c, i))
           miss(why) ==
               /\ cacheMisses' = [cacheMisses EXCEPT ![c] = Append(@, i)]
               /\ lookupLog' = [lookupLog EXCEPT ![c][i] = why]
               /\ loopIndex' = [loopIndex EXCEPT ![c] = @ + 1]
               /\ UNCHANGED <<envelopePc, results, outputFiles>>
       IN CASE cached = NoEntry -> miss("no entry")
            [] cached # NoEntry /\ escapesBaseDir(c, item, cached) ->
                   /\ envelopePc' = [envelopePc EXCEPT ![c] = "threw"]
                   /\ lookupLog' = [lookupLog EXCEPT ![c][i] = "escapes"]
                   /\ UNCHANGED <<cacheMisses, loopIndex, results, outputFiles>>
            [] cached # NoEntry /\ ~escapesBaseDir(c, item, cached) /\ ~isValid(cached) ->
                   miss("invalid")
            [] OTHER ->
                   /\ outputFiles' = copyToExpectedPath(outputFiles, cached,
                                                        newOutputsByKey(c, item, cached))
                   /\ results' = [results EXCEPT ![c][i] =
                          [item |-> item, outputs |-> newOutputsByKey(c, item, cached),
                           cached |-> TRUE]]
                   /\ lookupLog' = [lookupLog EXCEPT ![c][i] = "hit"]
                   /\ loopIndex' = [loopIndex EXCEPT ![c] = @ + 1]
                   /\ UNCHANGED <<envelopePc, cacheMisses>>
    /\ UNCHANGED <<outsideEnvelope, envelopeConfig, inputFileSystem, budget, cacheFiles,
                   workState, stored, processedItems>>

\* variant: performWork is invoked for every item
startedWorkAll(c) == 1..Len(items[c])

\* cacheMisses.map: the items whose work is started
startedWork(c) == Range(cacheMisses[c])

\* variant: Phase 2 is entered whether or not there is a miss
startWorkWithoutMisses(c) ==
    /\ envelopePc[c] = "lookup"
    /\ loopIndex[c] > Len(items[c])
    /\ envelopePc' = [envelopePc EXCEPT ![c] = "work"]
    /\ workState' = [workState EXCEPT ![c] =
           [i \in 1..Len(items[c]) |->
               IF i \in startedWork(c) THEN "running" ELSE "none"]]
    /\ UNCHANGED <<outsideEnvelope, envelopeConfig, inputFileSystem, budget, cacheFiles,
                   loopIndex, cacheMisses, stored, results, processedItems, lookupLog,
                   outputFiles>>

\* after the loop: no miss, return the results; else Phase 2, cacheMisses.map
\* invokes performWork for every miss
startWork(c) ==
    /\ envelopePc[c] = "lookup"
    /\ loopIndex[c] > Len(items[c])
    /\ IF Len(cacheMisses[c]) > 0
       THEN /\ envelopePc' = [envelopePc EXCEPT ![c] = "work"]
            /\ workState' = [workState EXCEPT ![c] =
                   [i \in 1..Len(items[c]) |->
                       IF i \in startedWork(c) THEN "running" ELSE "none"]]
       ELSE /\ envelopePc' = [envelopePc EXCEPT ![c] = "returned"]
            /\ UNCHANGED workState
    /\ UNCHANGED <<outsideEnvelope, envelopeConfig, inputFileSystem, budget, cacheFiles,
                   loopIndex, cacheMisses, stored, results, processedItems, lookupLog,
                   outputFiles>>

\* performWork(item) of one miss has written its outputs and resolves, with or
\* without a discovered dependency, and buildCacheEntry builds the entry
workCompletes(c, i) ==
    /\ workState[c][i] = "running"
    /\ ~buildCacheEntryRejects(<<items[c][i]>>)
    /\ \E discoveredDependencies \in {<<>>, <<DiscoveredFile>>} :
          processedItems' = [processedItems EXCEPT ![c][i] =
              [item |-> items[c][i],
               outputs |-> performWorkOutputs(c, items[c][i]),
               cacheEntry |-> buildCacheEntry(<<items[c][i]>>,
                                              performWorkOutputs(c, items[c][i]),
                                              getOutputDir(c), cacheKeys(c, i),
                                              discoveredDependencies,
                                              configDependencyPaths,
                                              upstreamOutputSignatures, c)]]
    /\ outputFiles' = outputFiles \cup writtenFiles(performWorkOutputs(c, items[c][i]))
    /\ workState' = [workState EXCEPT ![c][i] = "built"]
    /\ UNCHANGED <<outsideEnvelope, envelopeConfig, inputFileSystem, budget, cacheFiles,
                   envelopePc, loopIndex, cacheMisses, stored, results, lookupLog>>

\* performWork(item) or buildCacheEntry of one miss throws:
\* Promise.all(workPromises) rejects
workThrows(c, i) ==
    /\ workState[c][i] = "running"
    /\ workState' = [workState EXCEPT ![c][i] = "failed"]
    /\ envelopePc' = [envelopePc EXCEPT ![c] = IF @ = "work" THEN "threw" ELSE @]
    /\ UNCHANGED <<outsideEnvelope, envelopeConfig, inputFileSystem, budget, cacheFiles,
                   loopIndex, cacheMisses, stored, results, processedItems, lookupLog,
                   outputFiles>>

\* variant: Phase 3 starts as soon as one work item has completed
workPromisesAnyFulfilled(c) ==
    \E i \in Range(cacheMisses[c]) : workState[c][i] = "built"

\* when await Promise.all(workPromises) lets withCache go on to Phase 3
workPromisesFulfilled(c) ==
    \A i \in Range(cacheMisses[c]) : workState[c][i] = "built"

startStorage(c) ==
    /\ envelopePc[c] = "work"
    /\ workPromisesFulfilled(c)
    /\ envelopePc' = [envelopePc EXCEPT ![c] = "store"]
    /\ UNCHANGED <<outsideEnvelope, envelopeConfig, inputFileSystem, budget, cacheFiles,
                   loopIndex, cacheMisses, workState, stored, results, processedItems,
                   lookupLog, outputFiles>>

\* variant: the result of a miss is put at its position among the misses
resultIndexAmongMisses(c, i) ==
    CHOOSE n \in 1..Len(cacheMisses[c]) : cacheMisses[c][n] = i

\* Phase 3: results[index] of a processed item
resultIndex(c, i) == i

\* the setCache calls of Phase 3 are under way: Promise.all has started them
\* all, and the rejection of one does not stop the others
storing(c) ==
    \/ envelopePc[c] = "store"
    \/ /\ envelopePc[c] = "threw"
       /\ \E i \in 1..Len(items[c]) : setCacheState[c][i] = "failed"

\* Phase 3, setCache: mkdir, then fs.writeFile opens the cache file for writing,
\* which cuts it to length zero
setCacheOpens(c, i) ==
    /\ storing(c)
    /\ i \in Range(cacheMisses[c])
    /\ setCacheState[c][i] = "none"
    /\ setCacheState' = [setCacheState EXCEPT ![c][i] = "open"]
    /\ truncated' = truncated \cup {cachePath(c, i)}
    /\ UNCHANGED <<outsideEnvelope, envelopeConfig, inputFileSystem, budget, cacheStore,
                   envelopePc, loopIndex, cacheMisses, workState, stored, results,
                   processedItems, lookupLog, outputFiles>>

\* variant: a failed write is logged and withCache goes on
setCacheThrowsSwallowed(c, i) ==
    /\ storing(c)
    /\ i \in Range(cacheMisses[c])
    /\ setCacheState[c][i] \in {"none", "open"}
    /\ setCacheState' = [setCacheState EXCEPT ![c][i] = "done"]
    /\ stored' = [stored EXCEPT ![c] = @ \cup {i}]
    /\ UNCHANGED <<outsideEnvelope, envelopeConfig, inputFileSystem, budget, cacheStore,
                   truncated, envelopePc, loopIndex, cacheMisses, workState, results,
                   processedItems, lookupLog, outputFiles>>

\* Phase 3, setCache: mkdir or writeFile rejects, before the file was opened
\* or with the file cut and not written; Promise.all rejects and withCache
\* throws
setCacheThrows(c, i) ==
    /\ storing(c)
    /\ i \in Range(cacheMisses[c])
    /\ setCacheState[c][i] \in {"none", "open"}
    /\ setCacheState' = [setCacheState EXCEPT ![c][i] = "failed"]
    /\ envelopePc' = [envelopePc EXCEPT ![c] = "threw"]
    /\ UNCHANGED <<outsideEnvelope, envelopeConfig, inputFileSystem, budget, cacheStore,
                   truncated, loopIndex, cacheMisses, workState, stored, results,
                   processedItems, lookupLog, outputFiles>>

\* Phase 3: context.cache.setCache(contentSignature, cacheKey, cacheEntry) has
\* written the JSON text of the entry, then the result of the item
setCache(c, i) ==
    /\ storing(c)
    /\ setCacheState[c][i] = "open"
    /\ cacheStore' = [cacheStore EXCEPT ![cachePath(c, i)] = processedItems[c][i].cacheEntry]
    /\ truncated' = truncated \ {cachePath(c, i)}
    /\ setCacheState' = [setCacheState EXCEPT ![c][i] = "done"]
    /\ stored' = [stored EXCEPT ![c] = @ \cup {i}]
    /\ results' = [results EXCEPT ![c][resultIndex(c, i)] =
           [item |-> processedItems[c][i].item,
            outputs |-> processedItems[c][i].outputs,
            cached |-> FALSE]]
    /\ UNCHANGED <<outsideEnvelope, envelopeConfig, inputFileSystem, budget, envelopePc,
                   loopIndex, cacheMisses, workState, processedItems, lookupLog,
                   outputFiles>>

\* Promise.all of the setCache calls fulfils: return results
withCacheReturns(c) ==
    /\ envelopePc[c] = "store"
    /\ stored[c] = Range(cacheMisses[c])
    /\ envelopePc' = [envelopePc EXCEPT ![c] = "returned"]
    /\ UNCHANGED <<outsideEnvelope, envelopeConfig, inputFileSystem, budget, cacheFiles,
                   loopIndex, cacheMisses, workState, stored, results, processedItems,
                   lookupLog, outputFiles>>

\* return results.filter(r => r !== null)
returnValue(c) == SelectSeq(results[c], LAMBDA r : r # Null)

NextEnvelope ==
    \/ \E c \in Callers : lookupItem(c)
    \/ \E c \in Callers : startWork(c)
    \/ \E c \in Callers : \E i \in 1..Len(items[c]) : workCompletes(c, i)
    \/ \E c \in Callers : \E i \in 1..Len(items[c]) : workThrows(c, i)
    \/ \E c \in Callers : startStorage(c)
    \/ \E c \in Callers : \E i \in 1..Len(items[c]) : setCacheOpens(c, i)
    \/ \E c \in Callers : \E i \in 1..Len(items[c]) : setCacheThrows(c, i)
    \/ \E c \in Callers : \E i \in 1..Len(items[c]) : setCache(c, i)
    \/ \E c \in Callers : withCacheReturns(c)

SpecEnvelope == InitEnvelope /\ [][NextEnvelope]_vars

(***************************************************************************)
(* Runs of the pipeline one after another over one cache directory: nodes  *)
(* a and b call withCache in turn, and between two calls the files change. *)
(***************************************************************************)
MaxRuns == 3
MaxChanges == 1

noCallActive == \A c \in Callers : envelopePc[c] \in {"idle", "returned", "threw"}

InitCache ==
    /\ PipelineRunningNodes
    /\ PoolConstructed
    /\ FunctionsIdle
    /\ contentSignature = [c \in Callers |-> "s1"]
    /\ \E ia \in {<<"i1">>, <<"i2", "i1">>} : items = [c \in Callers |-> IF c = "a" THEN ia ELSE <<"i1">>]
    /\ getCacheKey = [i \in Items |-> IF i = "i1" THEN "k1" ELSE "k2"]
    /\ cacheStore = [sk \in Signatures \X Keys |-> NoEntry]
    /\ outputFiles = {}
    /\ \E d \in {NoFile, "v1"} :
          fileContent = [p \in InputFiles |-> IF p = DiscoveredFile THEN d ELSE "v1"]
    /\ fileTimestamp = [p \in InputFiles |-> "t1"]
    /\ upstreamOutputs = "u1"
    /\ outputFilenameMapping \in {"plain", "escaping"}
    /\ resultDocuments \in BOOLEAN
    /\ runsLeft = MaxRuns
    /\ changesLeft = MaxChanges
    /\ envelopePc = [c \in Callers |-> "idle"]
    /\ loopIndex = [c \in Callers |-> 1]
    /\ cacheMisses = [c \in Callers |-> <<>>]
    /\ workState = [c \in Callers |-> [i \in 1..Len(items[c]) |-> "none"]]
    /\ stored = [c \in Callers |-> {}]
    /\ results = [c \in Callers |-> [i \in 1..Len(items[c]) |-> Null]]
    /\ processedItems = [c \in Callers |-> [i \in 1..Len(items[c]) |-> Null]]
    /\ lookupLog = [c \in Callers |-> [i \in 1..Len(items[c]) |-> "none"]]
    /\ truncated = {}
    /\ setCacheState = [c \in Callers |-> [i \in 1..Len(items[c]) |-> "none"]]

\* node c runs: its run calls withCache (the locals of the calls that have
\* ended are gone)
callWithCache(c) ==
    /\ noCallActive
    /\ runsLeft > 0
    /\ runsLeft' = runsLeft - 1
    /\ envelopePc' = [d \in Callers |-> IF d = c THEN "lookup" ELSE "idle"]
    /\ callEntered
    /\ UNCHANGED <<outsideEnvelope, envelopeConfig, inputFileSystem, changesLeft,
                   cacheStore, truncated, outputFiles>>

\* the files change between two runs (the files as they are at the first run
\* are the initial state)
changeBetweenRuns ==
    /\ noCallActive
    /\ runsLeft < MaxRuns
    /\ changesLeft > 0
    /\ changesLeft' = changesLeft - 1
    /\ UNCHANGED <<outsideEnvelope, envelopeConfig, runsLeft, cacheFiles, envelopePc,
                   loopIndex, cacheMisses, workState, stored, results, processedItems,
                   lookupLog>>

\* a file is written: new bytes, or the same ones (touch); the timestamp of an
\* item file moves or is set back to what it was
writeFile(p, bytes, timestamp) ==
    /\ changeBetweenRuns
    /\ <<bytes, timestamp>> # <<fileContent[p], fileTimestamp[p]>>
    /\ p \notin Items => timestamp = fileTimestamp[p]
    /\ fileContent' = [fileContent EXCEPT ![p] = bytes]
    /\ fileTimestamp' = [fileTimestamp EXCEPT ![p] = timestamp]
    /\ UNCHANGED <<outputFiles, upstreamOutputs>>

unlink(p) ==
    /\ changeBetweenRuns
    /\ fileExists(p)
    /\ fileContent' = [fileContent EXCEPT ![p] = NoFile]
    /\ UNCHANGED <<fileTimestamp, outputFiles, upstreamOutputs>>

unlinkOutput(path) ==
    /\ changeBetweenRuns
    /\ path \in outputFiles
    /\ outputFiles' = outputFiles \ {path}
    /\ UNCHANGED <<fileContent, fileTimestamp, upstreamOutputs>>

\* the upstream producer emits another list of outputs
upstreamEmits(outputs) ==
    /\ changeBetweenRuns
    /\ outputs # upstreamOutputs
    /\ upstreamOutputs' = outputs
    /\ UNCHANGED <<fileContent, fileTimestamp, outputFiles>>

NextCache ==
    \/ \E c \in Callers : callWithCache(c)
    \/ \E p \in InputFiles, bytes \in Contents, timestamp \in Timestamps :
           writeFile(p, bytes, timestamp)
    \/ \E p \in InputFiles : unlink(p)
    \/ \E path \in outputFiles : unlinkOutput(path)
    \/ \E outputs \in UpstreamOutputs : upstreamEmits(outputs)
    \/ NextEnvelope

SpecCache == InitCache /\ [][NextCache]_vars

(***************************************************************************)
(* The worker pool under execute calls of the running nodes                *)
(***************************************************************************)
InitPool ==
    /\ PipelineRunningNodes
    /\ EnvelopeIdle
    /\ PoolConstructed
    /\ FunctionsIdle

\* variant: every worker counts as idle
isIdleAlways(w) == TRUE

\* !this.activeJobs.has(w)
isIdle(w) == activeJobs[w] = NoJob

\* this.workers.find(w => !this.activeJobs.has(w)), or NoWorker for undefined
idleWorker ==
    IF \E n \in 1..Len(workers) : isIdle(workers[n])
    THEN workers[CHOOSE n \in 1..Len(workers) :
                     /\ isIdle(workers[n])
                     /\ \A m \in 1..(n - 1) : ~isIdle(workers[m])]
    ELSE NoWorker

\* worker.postMessage(job): a thread that has ended takes no message
postMessage(boxes, w, job) ==
    IF workerAlive[w] THEN [boxes EXCEPT ![w] = Append(@, job)] ELSE boxes

\* a running node calls workerPool.execute(job)
execute ==
    /\ submitted < MaxJobs
    /\ submitted' = submitted + 1
    /\ settled' = [settled EXCEPT ![submitted + 1] = "pending"]
    /\ IF idleWorker # NoWorker
       THEN /\ activeJobs' = [activeJobs EXCEPT ![idleWorker] = submitted + 1]
            /\ mailbox' = postMessage(mailbox, idleWorker, submitted + 1)
            /\ dispatchedTo' = [dispatchedTo EXCEPT ![submitted + 1] = idleWorker]
            /\ UNCHANGED queue
       ELSE /\ queue' = Append(queue, submitted + 1)
            /\ UNCHANGED <<activeJobs, mailbox, dispatchedTo>>
    /\ UNCHANGED <<outsidePool, workers, workerAlive, events, settledWith>>

\* the thread of worker w ends its job and posts its message
workerPostsResult(w, success) ==
    /\ workerAlive[w]
    /\ mailbox[w] # <<>>
    /\ mailbox' = [mailbox EXCEPT ![w] = Tail(@)]
    /\ events' = [events EXCEPT ![w] = Append(@,
           [type |-> IF success THEN "success" ELSE "failure", job |-> Head(mailbox[w])])]
    /\ UNCHANGED <<outsidePool, workers, activeJobs, queue, workerAlive, submitted,
                   dispatchedTo, settled, settledWith>>

\* the thread of worker w throws outside its handler: the thread ends and the
\* worker emits 'error'
workerThrows(w) ==
    /\ workerAlive[w]
    /\ mailbox[w] # <<>>
    /\ workerAlive' = [workerAlive EXCEPT ![w] = FALSE]
    /\ mailbox' = [mailbox EXCEPT ![w] = <<>>]
    /\ events' = [events EXCEPT ![w] = Append(@, [type |-> "error", job |-> Head(mailbox[w])])]
    /\ UNCHANGED <<outsidePool, workers, activeJobs, queue, submitted, dispatchedTo,
                   settled, settledWith>>

\* variant: the "message" handler settles the job and leaves the queue alone
onMessageWithoutProcessNext(w) ==
    /\ events[w] # <<>>
    /\ Head(events[w]).type \in {"success", "failure"}
    /\ events' = [events EXCEPT ![w] = Tail(@)]
    /\ IF activeJobs[w] = NoJob
       THEN UNCHANGED <<activeJobs, settled, settledWith>>
       ELSE /\ settled' = [settled EXCEPT ![activeJobs[w]] =
                   IF Head(events[w]).type = "success" THEN "resolved" ELSE "rejected"]
            /\ settledWith' = [settledWith EXCEPT ![activeJobs[w]] = Head(events[w]).job]
            /\ activeJobs' = [activeJobs EXCEPT ![w] = NoJob]
    /\ UNCHANGED <<outsidePool, workers, workerAlive, submitted, queue, mailbox,
                   dispatchedTo>>

\* variant: processNext runs before the job of the worker is looked up
onMessageProcessNextFirst(w) ==
    /\ events[w] # <<>>
    /\ Head(events[w]).type \in {"success", "failure"}
    /\ events' = [events EXCEPT ![w] = Tail(@)]
    /\ IF queue # <<>>
       THEN /\ settled' = [settled EXCEPT ![Head(queue)] =
                   IF Head(events[w]).type = "success" THEN "resolved" ELSE "rejected"]
            /\ settledWith' = [settledWith EXCEPT ![Head(queue)] = Head(events[w]).job]
            /\ queue' = Tail(queue)
            /\ mailbox' = postMessage(mailbox, w, Head(queue))
            /\ dispatchedTo' = [dispatchedTo EXCEPT ![Head(queue)] = w]
            /\ activeJobs' = [activeJobs EXCEPT ![w] = NoJob]
       ELSE IF activeJobs[w] = NoJob
            THEN UNCHANGED <<activeJobs, queue, mailbox, dispatchedTo, settled, settledWith>>
            ELSE /\ settled' = [settled EXCEPT ![activeJobs[w]] =
                        IF Head(events[w]).type = "success" THEN "resolved" ELSE "rejected"]
                 /\ settledWith' = [settledWith EXCEPT ![activeJobs[w]] = Head(events[w]).job]
                 /\ activeJobs' = [activeJobs EXCEPT ![w] = NoJob]
                 /\ UNCHANGED <<queue, mailbox, dispatchedTo>>
    /\ UNCHANGED <<outsidePool, workers, workerAlive, submitted>>

\* worker.on("message"): settle the job of the worker, then processNext(worker)
onMessage(w) ==
    /\ events[w] # <<>>
    /\ Head(events[w]).type \in {"success", "failure"}
    /\ events' = [events EXCEPT ![w] = Tail(@)]
    /\ IF activeJobs[w] = NoJob
       THEN UNCHANGED <<activeJobs, queue, mailbox, dispatchedTo, settled, settledWith>>
       ELSE /\ settled' = [settled EXCEPT ![activeJobs[w]] =
                   IF Head(events[w]).type = "success" THEN "resolved" ELSE "rejected"]
            /\ settledWith' = [settledWith EXCEPT ![activeJobs[w]] = Head(events[w]).job]
            /\ IF queue # <<>>
               THEN /\ activeJobs' = [activeJobs EXCEPT ![w] = Head(queue)]
                    /\ queue' = Tail(queue)
                    /\ mailbox' = postMessage(mailbox, w, Head(queue))
                    /\ dispatchedTo' = [dispatchedTo EXCEPT ![Head(queue)] = w]
               ELSE /\ activeJobs' = [activeJobs EXCEPT ![w] = NoJob]
                    /\ UNCHANGED <<queue, mailbox, dispatchedTo>>
    /\ UNCHANGED <<outsidePool, workers, workerAlive, submitted>>

\* worker.on("error"): reject the job of the worker
onError(w) ==
    /\ events[w] # <<>>
    /\ Head(events[w]).type = "error"
    /\ events' = [events EXCEPT ![w] = Tail(@)]
    /\ IF activeJobs[w] = NoJob
       THEN UNCHANGED <<activeJobs, settled, settledWith>>
       ELSE /\ activeJobs' = [activeJobs EXCEPT ![w] = NoJob]
            /\ settled' = [settled EXCEPT ![activeJobs[w]] = "rejected"]
            /\ settledWith' = [settledWith EXCEPT ![activeJobs[w]] = Head(events[w]).job]
    /\ UNCHANGED <<outsidePool, workers, queue, mailbox, workerAlive, submitted,
                   dispatchedTo>>

\* Pipeline.run, finally: await this.workerPool.terminate()
terminate ==
    /\ workers # <<>>
    /\ workers' = <<>>
    /\ activeJobs' = [w \in Workers |-> NoJob]
    /\ queue' = <<>>
    /\ workerAlive' = [w \in Workers |-> FALSE]
    /\ mailbox' = [w \in Workers |-> <<>>]
    /\ events' = [w \in Workers |-> <<>>]
    /\ UNCHANGED <<outsidePool, submitted, dispatchedTo, settled, settledWith>>

NextPool ==
    \/ execute
    \/ \E w \in Workers, success \in BOOLEAN : workerPostsResult(w, success)
    \/ \E w \in Workers : workerThrows(w)
    \/ \E w \in Workers : onMessage(w)
    \/ \E w \in Workers : onError(w)
    \/ terminate

SpecPool == InitPool /\ [][NextPool]_vars

\* the worker threads go on with their jobs and the event loop of the pool
\* runs the handlers of the events it has received
SpecPoolHandling ==
    /\ InitPool
    /\ [][NextPool]_vars
    /\ \A w \in Workers :
          /\ WF_vars(\E success \in BOOLEAN : workerPostsResult(w, success))
          /\ WF_vars(onMessage(w))
          /\ WF_vars(onError(w))

(***************************************************************************)
(* The worker pool when every worker thread answers each job with a        *)
(* message (genericWorker catches what the workload throws) and the pool   *)
(* is not terminated: a thread that holds a job goes on to post its        *)
(* message, and the event loop of the main thread goes on to run the       *)
(* handler of an emitted event.                                            *)
(***************************************************************************)
NextPoolReplying ==
    \/ execute
    \/ \E w \in Workers, success \in BOOLEAN : workerPostsResult(w, success)
    \/ \E w \in Workers : onMessage(w)

SpecPoolReplying ==
    /\ InitPool
    /\ [][NextPoolReplying]_vars
    /\ \A w \in Workers :
          /\ WF_vars(\E success \in BOOLEAN : workerPostsResult(w, success))
          /\ WF_vars(onMessage(w))

(***************************************************************************)
(* PipelineNode.getContentSignature                                        *)
(*                                                                         *)
(* A string is the sequence of its pieces.  A config value is a record of  *)
(* one shape: a primitive (text: its JSON encoding), null, a FileRef       *)
(* (text: its path), a from() reference (text: the name of the producer,   *)
(* name: the output name), a plain object (kids: its <<key, value>>        *)
(* entries in insertion order) or an array (kids: its elements).           *)
(***************************************************************************)
\* most entries of one object
MaxEntries == 2

\* object keys: "a", "e" followed by the combining acute accent U+0301, and
\* the precomposed letter U+00E9; the last two are canonically equivalent
ConfigKeys == {"a", "e+U0301", "U00E9"}

value(kind, text, name, kids) == [kind |-> kind, text |-> text, name |-> name, kids |-> kids]

\* sequences of 1..len entries with distinct keys and values from vs
EntryLists(vs, len) ==
    {es \in UNION {[1..k -> ConfigKeys \X vs] : k \in 1..len} :
        \A i, j \in 1..Len(es) : es[i][1] = es[j][1] => i = j}

Leaves ==
    {value("prim", "1", "", <<>>), value("prim", "2", "", <<>>),
     value("null", "", "", <<>>), value("file", "x.xsl", "", <<>>),
     value("ref", "a", "out", <<>>)}

\* the values of the top-level keys: a leaf, an array, or an object of primitives
ConfigValues ==
    Leaves
    \cup {value("list", "", "", <<value("prim", "1", "", <<>>), value("prim", "2", "", <<>>)>>)}
    \cup {value("map", "", "", es) :
             es \in EntryLists({value("prim", "1", "", <<>>),
                                value("prim", "2", "", <<>>)}, MaxEntries)}

\* node.config.config
Configs == EntryLists(ConfigValues, MaxEntries)

Reverse(es) == [i \in 1..Len(es) |-> es[Len(es) + 1 - i]]

\* the same object written with its keys in another order, at the top level,
\* in the nested objects, or both
reordered(cfg, top, nested) ==
    LET inner == [i \in 1..Len(cfg) |->
                     IF nested /\ cfg[i][2].kind = "map"
                     THEN <<cfg[i][1], value("map", "", "", Reverse(cfg[i][2].kids))>>
                     ELSE cfg[i]]
    IN IF top THEN Reverse(inner) ELSE inner

\* a.localeCompare(b): the order of the collation keys; canonically equivalent
\* strings compare as equal (ECMA-262, String.prototype.localeCompare)
localeCompare(a, b) ==
    LET collationKey == [k \in ConfigKeys |-> IF k = "a" THEN 1 ELSE 2]
    IN collationKey[a] - collationKey[b]

\* Object.entries(value).sort(([a], [b]) => a.localeCompare(b)): a stable sort
RECURSIVE sortEntries(_)
sortEntries(es) ==
    IF es = <<>> THEN <<>>
    ELSE LET front == sortEntries(SubSeq(es, 1, Len(es) - 1))
             last == es[Len(es)]
         IN SelectSeq(front, LAMBDA x : localeCompare(x[1], last[1]) <= 0)
            \o <<last>>
            \o SelectSeq(front, LAMBDA x : localeCompare(x[1], last[1]) > 0)

\* the default comparison of sort(): by UTF-16 code units; parts that begin
\* with different keys are ordered by the first code unit of the key
compareCodeUnits(x, y) ==
    LET firstCodeUnit == [k \in ConfigKeys |->
            CASE k = "a" -> 97 [] k = "e+U0301" -> 101 [] OTHER -> 233]
    IN firstCodeUnit[x[1]] - firstCodeUnit[y[1]]

\* configParts.sort()
RECURSIVE sortParts(_)
sortParts(parts) ==
    IF parts = <<>> THEN <<>>
    ELSE LET front == sortParts(SubSeq(parts, 1, Len(parts) - 1))
             last == parts[Len(parts)]
         IN SelectSeq(front, LAMBDA x : compareCodeUnits(x, last) <= 0)
            \o <<last>>
            \o SelectSeq(front, LAMBDA x : compareCodeUnits(x, last) > 0)

\* elements.join(separator), for strings given as sequences of pieces
RECURSIVE joinStrings(_, _)
joinStrings(parts, separator) ==
    IF parts = <<>> THEN <<>>
    ELSE IF Len(parts) = 1 THEN parts[1]
    ELSE parts[1] \o <<separator>> \o joinStrings(Tail(parts), separator)

RECURSIVE serializeValue(_)
serializeValue(v) ==
    CASE v.kind = "null" -> <<"null">>
      [] v.kind = "file" -> <<"FileRef(", v.text, ")">>
      [] v.kind = "ref" -> <<"from(", v.text, ":", v.name, ")">>
      [] v.kind = "prim" -> <<v.text>>
      [] v.kind = "list" ->
            <<"[">> \o joinStrings([i \in 1..Len(v.kids) |-> serializeValue(v.kids[i])], ",")
                   \o <<"]">>
      [] OTHER ->
            LET entries == sortEntries(v.kids)
            IN <<"{">> \o joinStrings([i \in 1..Len(entries) |->
                                          <<entries[i][1], ":">> \o serializeValue(entries[i][2])], ",")
                      \o <<"}">>

\* serializeForSignature: null for a null value, else "key:value"
serializeForSignature(key, v) ==
    IF v.kind = "null" THEN <<>> ELSE <<key, ":">> \o serializeValue(v)

\* getContentSignature of a node: the parts of its config that are not null,
\* sorted by code units and joined, hashed, after the name of the node's class
getContentSignature(node) ==
    LET cfg == node.config
        all == [i \in 1..Len(cfg) |-> serializeForSignature(cfg[i][1], cfg[i][2])]
        configParts == SelectSeq(all, LAMBDA part : part # <<>>)
        sorted == sortParts(configParts)
    IN <<node.class, <<"sha256", joinStrings(sorted, "|")>> >>

NoSignature == <<>>

\* two nodes of one class; the second has the config of the first with its
\* keys in some order, and its own name, outputConfig and explicitDependencies
InitSignature ==
    /\ PipelineRunningNodes
    /\ EnvelopeIdle
    /\ PoolConstructed
    /\ shapingInput = <<>>
    /\ outputPath = <<>>
    /\ configReferences = <<>>
    /\ recordedUpstream = <<>>
    /\ cacheDirectory = <<>>
    /\ gotten = <<>>
    /\ \E cfg \in Configs, top \in BOOLEAN, nested \in BOOLEAN, other \in BOOLEAN :
          signatureNodes =
              <<[class |-> "SefTransformNode", name |-> "n1", config |-> cfg,
                 outputConfig |-> "o1", explicitDependencies |-> <<>>],
                [class |-> "SefTransformNode",
                 name |-> IF other THEN "n2" ELSE "n1",
                 config |-> reordered(cfg, top, nested),
                 outputConfig |-> IF other THEN "o2" ELSE "o1",
                 explicitDependencies |-> IF other THEN <<"a">> ELSE <<>>]>>
    /\ contentSignatures = [n \in 1..2 |-> NoSignature]

\* withCache of node n calls this.getContentSignature(context)
callGetContentSignature(n) ==
    /\ contentSignatures[n] = NoSignature
    /\ contentSignatures' = [contentSignatures EXCEPT ![n] = getContentSignature(signatureNodes[n])]
    /\ UNCHANGED <<pvars, envelopeVars, poolVars, signatureNodes, shapingVars, upstreamVars,
                   directoryVars>>

\* the producer that the configs refer to emits another list of outputs
producerEmits(outputs) ==
    /\ outputs # upstreamOutputs
    /\ upstreamOutputs' = outputs
    /\ UNCHANGED <<pvars, poolVars, functionVars, contentSignature, items, getCacheKey,
                   cacheStore, truncated, setCacheState, envelopePc, loopIndex,
                   cacheMisses, workState, stored, results, processedItems, lookupLog,
                   fileContent, fileTimestamp, outputFiles, outputFilenameMapping,
                   resultDocuments, runsLeft, changesLeft>>

NextSignature ==
    \/ \E n \in 1..2 : callGetContentSignature(n)
    \/ \E outputs \in UpstreamOutputs : producerEmits(outputs)

SpecSignature == InitSignature /\ [][NextSignature]_vars

(***************************************************************************)
(* PipelineNode.calculateOutputPath, on paths as strings: the sequence of  *)
(* their characters                                                        *)
(***************************************************************************)
\* the cleaned input paths "s/a/f", "sa/f", "t/f" and "f"
CleanPaths ==
    {<<"s", "/", "a", "/", "f">>, <<"s", "a", "/", "f">>, <<"t", "/", "f">>, <<"f">>}

\* outputConfig: flattenToBasename, stripPathPrefix ("s", "s/" or "x"),
\* pathMapping (a function that puts the path under "m/"), extension (".h")
\* and outputFilename ("o"), each of them configured or not
OutputConfigs ==
    [flattenToBasename : BOOLEAN,
     stripPathPrefix : {Undefined, <<"s">>, <<"s", "/">>, <<"x">>},
     pathMapping : {Undefined, <<"m", "/">>},
     extension : {Undefined, <<".", "h">>},
     outputFilename : {Undefined, <<"o">>}]

\* normalizedClean.startsWith(normalizedPrefix)
startsWith(str, prefix) ==
    Len(prefix) <= Len(str) /\ SubSeq(str, 1, Len(prefix)) = prefix

\* the index of the last "/" of a path, 0 when it has none
lastSeparator(str) ==
    LET at == {i \in 1..Len(str) : str[i] = "/"}
    IN IF at = {} THEN 0 ELSE CHOOSE i \in at : \A j \in at : j <= i

\* path.basename
basename(str) == SubSeq(str, lastSeparator(str) + 1, Len(str))

\* Step 2, as the claim reads it: a configured stripPathPrefix that does not
\* match leaves the path to pathMapping
processedPathFirstMatching(cleanPath, outputConfig) ==
    IF outputConfig.flattenToBasename THEN basename(cleanPath)
    ELSE IF /\ outputConfig.stripPathPrefix # Undefined
            /\ startsWith(cleanPath, outputConfig.stripPathPrefix)
         THEN LET stripped == SubSeq(cleanPath, Len(outputConfig.stripPathPrefix) + 1,
                                     Len(cleanPath))
              IN IF startsWith(stripped, <<"/">>) THEN Tail(stripped) ELSE stripped
    ELSE IF outputConfig.pathMapping # Undefined
         THEN outputConfig.pathMapping \o cleanPath
    ELSE cleanPath

\* Step 2: the path structure manipulation
processedPath(cleanPath, outputConfig) ==
    IF outputConfig.flattenToBasename THEN basename(cleanPath)
    ELSE IF outputConfig.stripPathPrefix # Undefined
         THEN IF startsWith(cleanPath, outputConfig.stripPathPrefix)
              THEN LET stripped == SubSeq(cleanPath, Len(outputConfig.stripPathPrefix) + 1,
                                          Len(cleanPath))
                   IN IF startsWith(stripped, <<"/">>) THEN Tail(stripped) ELSE stripped
              ELSE cleanPath
    ELSE IF outputConfig.pathMapping # Undefined
         THEN outputConfig.pathMapping \o cleanPath
    ELSE cleanPath

\* Step 3: the filename changes (the file names of the model have no
\* extension of their own and no suffix is configured)
finalFilename(processed, outputConfig) ==
    IF outputConfig.outputFilename # Undefined THEN outputConfig.outputFilename
    ELSE LET newExt == IF outputConfig.extension # Undefined
                       THEN outputConfig.extension ELSE <<>>
         IN processed \o newExt

\* Step 4: under the build directory of the node
calculateOutputPath(cleanPath, outputConfig) ==
    <<"b", "/">> \o finalFilename(processedPath(cleanPath, outputConfig), outputConfig)

InitShaping ==
    /\ PipelineRunningNodes
    /\ EnvelopeIdle
    /\ PoolConstructed
    /\ signatureNodes = <<>>
    /\ contentSignatures = <<>>
    /\ configReferences = <<>>
    /\ recordedUpstream = <<>>
    /\ cacheDirectory = <<>>
    /\ gotten = <<>>
    /\ \E cleanPath \in CleanPaths, outputConfig \in OutputConfigs :
          shapingInput = <<cleanPath, outputConfig>>
    /\ outputPath = <<>>

\* a node asks for the output path of an input
callCalculateOutputPath ==
    /\ outputPath = <<>>
    /\ outputPath' = calculateOutputPath(shapingInput[1], shapingInput[2])
    /\ UNCHANGED <<pvars, envelopeVars, poolVars, signatureVars, shapingInput, upstreamVars,
                   directoryVars>>

NextShaping == callCalculateOutputPath

SpecShaping == InitShaping /\ [][NextShaping]_vars

(***************************************************************************)
(* withCache: the upstream signatures of the entry that a miss builds      *)
(***************************************************************************)
MaxReferences == 2
Producers == {"p", "q"}
Globs == {Undefined, <<"*.xml">>}

\* from(node, name, glob)
References == [node : Producers, name : OutputNames, glob : Globs]

\* the references of this.config.config, in the order processConfigValue
\* meets them
ReferenceLists == UNION {[1..k -> References] : k \in 0..MaxReferences}

\* context.resolveInput of a reference: every producer has emitted an .xml
\* and a .txt file under each output name, and a glob keeps the .xml file
resolveInput(ref) ==
    IF ref.glob = Undefined
    THEN <<<<ref.node, ref.name, "x.xml">>, <<ref.node, ref.name, "y.txt">>>>
    ELSE <<<<ref.node, ref.name, "x.xml">>>>

\* upstreamNodes.set(value.node.name, value), on a Map kept as the sequence
\* of its values in insertion order of their keys
mapSet(map, ref) ==
    IF \E i \in 1..Len(map) : map[i].node = ref.node
    THEN [i \in 1..Len(map) |-> IF map[i].node = ref.node THEN ref ELSE map[i]]
    ELSE Append(map, ref)

\* the Map upstreamNodes after the loop over the values of the config
RECURSIVE upstreamNodesFrom(_, _)
upstreamNodesFrom(map, refs) ==
    IF refs = <<>> THEN map
    ELSE upstreamNodesFrom(mapSet(map, Head(refs)), Tail(refs))

upstreamNodes(refs) == upstreamNodesFrom(<<>>, refs)

\* const upstreamOutputSignatures, by nodeName
upstreamSignaturesByNodeName(refs) ==
    [i \in 1..Len(upstreamNodes(refs)) |->
        [nodeName |-> upstreamNodes(refs)[i].node,
         signature |-> computeOutputSignature(resolveInput(upstreamNodes(refs)[i])),
         outputKey |-> upstreamNodes(refs)[i].name,
         glob |-> upstreamNodes(refs)[i].glob]]

\* no entry was built yet
NotBuilt == [built |-> FALSE, upstreamSignatures |-> <<>>]

InitUpstream ==
    /\ PipelineRunningNodes
    /\ EnvelopeIdle
    /\ PoolConstructed
    /\ signatureNodes = <<>>
    /\ contentSignatures = <<>>
    /\ shapingInput = <<>>
    /\ outputPath = <<>>
    /\ cacheDirectory = <<>>
    /\ gotten = <<>>
    /\ configReferences \in ReferenceLists
    /\ recordedUpstream = NotBuilt

\* withCache up to the entry that a miss builds: its upstreamSignatures
buildsEntryOnMiss ==
    /\ recordedUpstream = NotBuilt
    /\ recordedUpstream' =
           [built |-> TRUE,
            upstreamSignatures |-> upstreamSignaturesByNodeName(configReferences)]
    /\ UNCHANGED <<pvars, envelopeVars, poolVars, signatureVars, shapingVars,
                   configReferences, directoryVars>>

NextUpstream == buildsEntryOnMiss

SpecUpstream == InitUpstream /\ [][NextUpstream]_vars

(***************************************************************************)
(* CacheManager: the files of the cache directory, with names as strings:  *)
(* the sequence of their characters                                        *)
(***************************************************************************)
\* the content signatures "N-1", "n-1" and "M-1"
SignatureNames == {<<"N", "-", "1">>, <<"n", "-", "1">>, <<"M", "-", "1">>}

\* the cache keys "a/b", "a-b", "A-b", "ab" and "a b"
ItemKeys ==
    {<<"a", "/", "b">>, <<"a", "-", "b">>, <<"A", "-", "b">>, <<"a", "b">>,
     <<"a", " ", "b">>}

\* [a-zA-Z0-9-_], among the characters of the model
isSafeCharacter(ch) == ch \in {"a", "b", "n", "m", "A", "N", "M", "1", "-", "_"}

\* String.prototype.toLowerCase
toLowerCase(str) ==
    [i \in 1..Len(str) |->
        CASE str[i] = "A" -> "a"
          [] str[i] = "N" -> "n"
          [] str[i] = "M" -> "m"
          [] OTHER -> str[i]]

\* .replace(/-+/g, '-')
RECURSIVE collapseDashes(_)
collapseDashes(str) ==
    IF Len(str) < 2 THEN str
    ELSE IF str[1] = "-" /\ str[2] = "-" THEN collapseDashes(Tail(str))
    ELSE <<str[1]>> \o collapseDashes(Tail(str))

sanitizeKey(key) ==
    LET replaced == [i \in 1..Len(key) |->
                        IF key[i] \in {"/", "\\"} THEN "-"
                        ELSE IF key[i] = "." THEN "_"
                        ELSE key[i]]
    IN toLowerCase(SelectSeq(replaced, isSafeCharacter))

sanitizeNodeName(nodeName) ==
    toLowerCase(collapseDashes(
        [i \in 1..Len(nodeName) |->
            IF isSafeCharacter(nodeName[i]) THEN nodeName[i] ELSE "-"]))

\* path.join(this.cacheDir, safeNodeName, `${safeItemKey}.json`)
getCachePath(nodeName, itemKey) ==
    <<".efes-cache", sanitizeNodeName(nodeName), sanitizeKey(itemKey) \o <<".json">>>>

CachePaths == {getCachePath(nodeName, itemKey) : nodeName \in SignatureNames, itemKey \in ItemKeys}

\* no file at a path, and what getCache returns then
NoCacheFile == [signature |-> <<>>, itemKey |-> <<>>]

InitDirectory ==
    /\ PipelineRunningNodes
    /\ EnvelopeIdle
    /\ PoolConstructed
    /\ signatureNodes = <<>>
    /\ contentSignatures = <<>>
    /\ shapingInput = <<>>
    /\ outputPath = <<>>
    /\ configReferences = <<>>
    /\ recordedUpstream = <<>>
    /\ cacheDirectory = [file \in CachePaths |-> NoCacheFile]
    /\ gotten = [signature |-> <<>>, itemKey |-> <<>>, entry |-> NoCacheFile]

\* setCache(nodeName, itemKey, entry): the entry is marked with the signature
\* and key it was put under
putEntry(nodeName, itemKey) ==
    /\ cacheDirectory' = [cacheDirectory EXCEPT ![getCachePath(nodeName, itemKey)] =
                              [signature |-> nodeName, itemKey |-> itemKey]]
    /\ UNCHANGED <<pvars, envelopeVars, poolVars, signatureVars, shapingVars, upstreamVars,
                   gotten>>

\* getCache(nodeName, itemKey)
getEntry(nodeName, itemKey) ==
    /\ gotten' = [signature |-> nodeName, itemKey |-> itemKey,
                  entry |-> cacheDirectory[getCachePath(nodeName, itemKey)]]
    /\ UNCHANGED <<pvars, envelopeVars, poolVars, signatureVars, shapingVars, upstreamVars,
                   cacheDirectory>>

NextDirectory ==
    \/ \E nodeName \in SignatureNames, itemKey \in ItemKeys : putEntry(nodeName, itemKey)
    \/ \E nodeName \in SignatureNames, itemKey \in ItemKeys : getEntry(nodeName, itemKey)

SpecDirectory == InitDirectory /\ [][NextDirectory]_vars

(***************************************************************************)
(* Properties of the scheduler                                             *)
(***************************************************************************)
\* every node-output reference inside a config value, at any depth, in maps and lists
RECURSIVE ReferencesIn(_)
ReferencesIn(v) ==
    IF v.kind = "ref" THEN {v}
    ELSE UNION {ReferencesIn(v.kids[i]) : i \in 1..Len(v.kids)}

Started(n) == nodeState[n] # "pending"
ExecutionEntered == pc \in {"execute", "waitLoop", "finally", "returned"}

\* C1: in every execution mode, a node whose run has been started has all the
\* nodes it depends on in the graph finished successfully, with their output
\* stored in nodeOutputs.
C1_DependenciesCommittedBeforeStart ==
    \A n \in Nodes : Started(n) =>
        \A d \in dependenciesOf(n) : nodeState[d] = "done" /\ nodeOutputs[d] # Absent

C1_Witness ==
    \E n \in Nodes : Running(n) /\ dependenciesOf(n) # {} /\ executionMode = "dynamic"

\* C2: when run enters an execution strategy (so before the first node runs),
\* every reference of every node's config, at any depth and in maps as in
\* lists, to a node of the pipeline is an edge consumer -> producer of the graph.
C2_EveryReferenceIsAnEdge ==
    ExecutionEntered =>
        \A n \in Nodes : \A ref \in ReferencesIn(config[n]) :
            ref.node \in Nodes => <<n, ref.node>> \in graph

\* the edges dependency setup derives from the configs and explicitDependencies
DerivedEdges ==
    Range(explicitPairs(addNodeOrder)) \cup Range(automaticPairs(addNodeOrder))

DerivedCycle == \E n \in Nodes : n \in reach(DerivedEdges, {n}, {})

\* C3: when the derived edges contain a cycle, run never enters an execution
\* strategy: no node's run is invoked, nodeOutputs stays empty, and where run
\* has ended it has raised an error.
C3_CycleRaisesBeforeExecution ==
    DerivedCycle =>
        /\ \A n \in Nodes : runCount[n] = 0 /\ nodeOutputs[n] = Absent
        /\ ~ExecutionEntered
        /\ pc = "raised" => runResult # NoError

C3_Witness == DerivedCycle /\ pc = "raised" /\ runResult = "cycle"

\* the references of n whose output name the producer never emits
UnemittedReferences(n) ==
    {ref \in ReferencesIn(config[n]) : ref.node \in Nodes /\ ref.name \notin EmittedNames}

\* C4 as stated: with such a reference in some config, run fails at run start,
\* before any node (the producer included) has executed.
C4_FailsBeforeAnyNodeExecutes ==
    (\E n \in Nodes : UnemittedReferences(n) # {}) => \A m \in Nodes : runCount[m] = 0

\* C4 amended: the consumer's own run throws when it resolves the reference: the
\* consumer never gets to its work, never stores an output, and run never
\* returns normally.
C4_ConsumerFailsAtResolution ==
    \A n \in Nodes : UnemittedReferences(n) # {} =>
        /\ nodeState[n] \notin {"working", "done"}
        /\ nodeOutputs[n] = Absent
        /\ pc # "returned"

C4_Witness ==
    \E n \in Nodes : \E ref \in UnemittedReferences(n) :
        /\ nodeState[n] = "failed"
        /\ nodeState[ref.node] = "done"
        /\ pc = "raised"
        /\ runResult = n

\* every reference of every config is an edge of the graph
ReferencesAreEdges ==
    \A n \in Nodes : \A ref \in ReferencesIn(config[n]) : <<n, ref.node>> \in graph

\* C5: run has not ended and the worker pool is not terminated while a node
\* is still running (stated for the pipelines whose references all are edges,
\* where a node fails by a workload error only).
C5_RunningNodesFinishFirst ==
    (ReferencesAreEdges /\ (poolTerminated \/ pc \in {"returned", "raised"})) =>
        \A n \in Nodes : ~Running(n)

\* C6: when nodes failed, run raises the error of the node that failed first.
C6_FirstErrorRaised ==
    (pc \in {"finally", "raised"} /\ Len(failOrder) > 0) => runResult = failOrder[1]

C6_Witness ==
    /\ pc = "raised"
    /\ Len(failOrder) >= 2
    /\ executionMode = "dynamic"

\* C7: in dynamic mode, once an error is recorded, a pending node stays pending.
C7_NoStartAfterError ==
    [][(executionMode = "dynamic" /\ Len(errors) > 0) =>
          \A n \in Nodes : nodeState[n] = "pending" => nodeState'[n] = "pending"]_vars

C7_Witness ==
    /\ executionMode = "dynamic"
    /\ Len(errors) > 0
    /\ pc = "raised"
    /\ \E n \in pending : isReady(n) /\ runCount[n] = 0

\* C8: no node's run is invoked twice; when run returns normally every node's
\* run has been invoked exactly once.
C8_RunExactlyOnce ==
    /\ \A n \in Nodes : runCount[n] <= 1
    /\ pc = "returned" => \A n \in Nodes : runCount[n] = 1

C8_Witness ==
    /\ pc = "returned"
    /\ executionMode = "dynamic"
    /\ \A n \in Nodes : runCount[n] = 1 /\ nodeState[n] = "done"

(***************************************************************************)
(* Properties of the cache envelope                                        *)
(***************************************************************************)
\* the builds (performWork calls) in progress, as <<caller, item index>>
BuildsInProgress ==
    {b \in Callers \X (1..MaxItems) :
        b[2] <= Len(items[b[1]]) /\ workState[b[1]][b[2]] = "running"}

\* C9: no two builds in progress are for the same (contentSignature, cacheKey).
C9_OneBuildPerSignatureAndKey ==
    \A b1, b2 \in BuildsInProgress :
        b1 # b2 => cachePath(b1[1], b1[2]) # cachePath(b2[1], b2[2])

\* C10: a call of withCache has written a cache entry only if the work of every
\* one of its cache misses has completed; a call with a failed work item has
\* written none.
C10_EntriesWrittenAfterAllWork ==
    \A c \in Callers :
        /\ stored[c] # {} => \A i \in Range(cacheMisses[c]) : workState[c][i] = "built"
        /\ (\E i \in Range(cacheMisses[c]) : workState[c][i] = "failed") =>
               /\ stored[c] = {}
               /\ \A sk \in Signatures \X Keys : cacheStore[sk].by # c

C10_Witness ==
    /\ Len(cacheMisses["a"]) >= 2
    /\ stored["a"] # {}
    /\ envelopePc["b"] = "threw"
    /\ \E i \in Range(cacheMisses["b"]) : workState["b"][i] = "failed"

\* C11: when withCache returns normally, its result list is as long as items,
\* the i-th result is that of the i-th item, and it is marked cached exactly
\* when the i-th lookup was a hit, whatever the order in which the work of the
\* misses completed and their entries were stored.
C11_ResultsAlignWithItems ==
    \A c \in Callers : envelopePc[c] = "returned" =>
        /\ Len(returnValue(c)) = Len(items[c])
        /\ \A i \in 1..Len(items[c]) :
              /\ returnValue(c)[i].item = items[c][i]
              /\ returnValue(c)[i].cached = (lookupLog[c][i] = "hit")

C11_Witness ==
    /\ envelopePc["a"] = "returned"
    /\ Len(items["a"]) = 2
    /\ lookupLog["a"][1] = "invalid"
    /\ lookupLog["a"][2] = "hit"

(***************************************************************************)
(* Properties of cache validation over successive runs                     *)
(***************************************************************************)
\* C12: for an item whose lookup was a hit, performWork is not invoked, no
\* entry is built and none is stored; and as long as no file has changed since
\* the first run, no entry found fails validation.
C12_HitDoesNoWork ==
    \A c \in Callers : \A i \in 1..Len(items[c]) :
        /\ lookupLog[c][i] = "hit" =>
              /\ workState[c][i] = "none"
              /\ processedItems[c][i] = Null
              /\ i \notin stored[c]
        /\ lookupLog[c][i] = "invalid" => changesLeft < MaxChanges

C12_Witness ==
    /\ envelopePc["a"] = "returned"
    /\ Len(items["a"]) = 2
    /\ lookupLog["a"][1] = "invalid"
    /\ lookupLog["a"][2] = "hit"
    /\ stored["a"] = {1}
    /\ cacheStore[cachePath("a", 2)].by = "b"

\* the lookup of item i of caller c has just validated the entry of the item:
\* the entry and the input files are as validation saw them, and so are the
\* generated files but for the copies of the hit
Validated(c, i) ==
    /\ envelopePc[c] = "lookup"
    /\ i = loopIndex[c] - 1
    /\ i >= 1
    /\ lookupLog[c][i] \in {"hit", "invalid"}

recordedDependencies(e) ==
    {e.dependencies[n].path : n \in 1..Len(e.dependencies)} \cup
    {e.implicitDependencies[n].path : n \in 1..Len(e.implicitDependencies)}

bytesChanged(e, p) == fileContent[p] # e.builtFrom[p]

dependenciesAsBuilt(e) == \A p \in recordedDependencies(e) : ~bytesChanged(e, p)

outputsAndUpstreamAsBuilt(e) ==
    /\ \A n \in 1..Len(outputPaths(e)) : outputPaths(e)[n] \in outputFiles
    /\ \A n \in 1..Len(e.upstreamSignatures) :
          e.upstreamSignatures[n].signature = <<"sha256", upstreamOutputs>>

\* C13 as stated: when the bytes of an item file or of a recorded dependency
\* differ from those the entry was built from, validation fails, whatever the
\* timestamps; when only other files changed, validation succeeds.
C13_ChangedBytesInvalidate ==
    \A c \in Callers : \A i \in 1..MaxItems : Validated(c, i) =>
        LET e == cacheStore[cachePath(c, i)]
        IN /\ (\/ \E n \in 1..Len(e.inputPaths) : bytesChanged(e, e.inputPaths[n])
               \/ ~dependenciesAsBuilt(e))
                  => lookupLog[c][i] = "invalid"
           /\ ((\A n \in 1..Len(e.inputPaths) : ~bytesChanged(e, e.inputPaths[n]))
               /\ dependenciesAsBuilt(e) /\ outputsAndUpstreamAsBuilt(e))
                  => lookupLog[c][i] = "hit"

\* C13 amended: changed bytes of an item file invalidate when the timestamp of
\* the file differs from the recorded one too (or the file is gone), changed
\* bytes of a recorded dependency always do; an item file that keeps the
\* recorded timestamp counts as unchanged, and when nothing else differs
\* validation succeeds.
C13_ChangedBytesInvalidateUnlessTimestampKept ==
    \A c \in Callers : \A i \in 1..MaxItems : Validated(c, i) =>
        LET e == cacheStore[cachePath(c, i)]
        IN /\ (\/ \E n \in 1..Len(e.inputPaths) :
                     /\ bytesChanged(e, e.inputPaths[n])
                     /\ \/ fileTimestamp[e.inputPaths[n]] # e.inputTimestamps[n]
                        \/ fileContent[e.inputPaths[n]] = NoFile
               \/ ~dependenciesAsBuilt(e))
                  => lookupLog[c][i] = "invalid"
           /\ ((\A n \in 1..Len(e.inputPaths) :
                     /\ fileContent[e.inputPaths[n]] # NoFile
                     /\ \/ ~bytesChanged(e, e.inputPaths[n])
                        \/ fileTimestamp[e.inputPaths[n]] = e.inputTimestamps[n])
               /\ dependenciesAsBuilt(e) /\ outputsAndUpstreamAsBuilt(e))
                  => lookupLog[c][i] = "hit"

C13_Witness ==
    \E c \in Callers : \E i \in 1..Len(items[c]) :
        /\ Validated(c, i)
        /\ lookupLog[c][i] = "invalid"
        /\ bytesChanged(cacheStore[cachePath(c, i)], DiscoveredFile)
        /\ DiscoveredFile \in recordedDependencies(cacheStore[cachePath(c, i)])
        /\ outputsAndUpstreamAsBuilt(cacheStore[cachePath(c, i)])

outputsPresent(e) == \A n \in 1..Len(outputPaths(e)) : outputPaths(e)[n] \in outputFiles

itemsFresh(e) ==
    \A n \in 1..Len(e.inputPaths) :
        /\ fileContent[e.inputPaths[n]] # NoFile
        /\ \/ fileTimestamp[e.inputPaths[n]] = e.inputTimestamps[n]
           \/ <<"sha256", fileContent[e.inputPaths[n]]>> = e.inputHashes[n]

dependenciesPresentAndEqual(deps) ==
    \A n \in 1..Len(deps) :
        /\ fileContent[deps[n].path] # NoFile
        /\ <<"sha256", fileContent[deps[n].path]>> = deps[n].hash

upstreamAsRecorded(e) ==
    \A n \in 1..Len(e.upstreamSignatures) :
        e.upstreamSignatures[n].signature = <<"sha256", upstreamOutputs>>

C15_MissingDiscoveredDependencyInvalidates ==
    \A c \in Callers : \A i \in 1..MaxItems : Validated(c, i) =>
        LET e == cacheStore[cachePath(c, i)]
        IN (\E n \in 1..Len(e.advertised) : e.builtFrom[e.advertised[n]] = NoFile)
               => lookupLog[c][i] = "invalid"

\* the item file of the entry has another timestamp than recorded and the
\* recorded bytes, and nothing else stands against the entry
touchedOnly(e) ==
    /\ e # NoEntry
    /\ \A n \in 1..Len(e.inputPaths) :
          /\ fileTimestamp[e.inputPaths[n]] # e.inputTimestamps[n]
          /\ <<"sha256", fileContent[e.inputPaths[n]]>> = e.inputHashes[n]
    /\ outputsPresent(e)
    /\ dependenciesPresentAndEqual(e.dependencies)
    /\ dependenciesPresentAndEqual(e.implicitDependencies)
    /\ upstreamAsRecorded(e)

\* C16: the lookup of an item whose file was touched (another timestamp, the
\* same bytes) is a hit and leaves the stored entries as they are, the recorded
\* timestamp included, so that the next validation finds the same difference.
C16_TouchedItemAcceptedEntryKept ==
    [][\A c \in Callers :
          (/\ envelopePc[c] = "lookup"
           /\ loopIndex[c] <= Len(items[c])
           /\ loopIndex'[c] = loopIndex[c] + 1
           /\ touchedOnly(getCache(cachePath(c, loopIndex[c]))))
          => /\ lookupLog'[c][loopIndex[c]] = "hit"
             /\ cacheStore' = cacheStore]_vars

C16_Witness ==
    \E c \in Callers : \E i \in 1..Len(items[c]) :
        /\ Validated(c, i)
        /\ lookupLog[c][i] = "hit"
        /\ touchedOnly(getCache(cachePath(c, i)))
        /\ runsLeft = 0

(***************************************************************************)
(* Properties of a cache hit                                               *)
(***************************************************************************)
IsDescendant(p, dir) == Len(p) > Len(dir) /\ SubSeq(p, 1, Len(dir)) = dir

\* the paths a result reports, under every output key
reportedPaths(r) == UNION {Range(r.outputs[k]) : k \in Range(OutputKeys)}

\* C17: every output path that the result of a cache hit reports, recalculated
\* or rebased, is a descendant of the directory getOutputDir returns.
C17_HitPathsUnderOutputDir ==
    \A c \in Callers : \A i \in 1..Len(items[c]) :
        lookupLog[c][i] = "hit" =>
            \A p \in reportedPaths(results[c][i]) : IsDescendant(p, getOutputDir(c))

\* C18: when a call of withCache returns, every path that the result of one
\* of its cache hits reports exists: the files of the entry are at their
\* cached paths, and where the expected path differs the file was copied there.
C18_HitPathsExistOnReturn ==
    [][\A c \in Callers :
          (envelopePc[c] # "returned" /\ envelopePc'[c] = "returned") =>
              \A i \in 1..Len(items[c]) :
                  lookupLog'[c][i] = "hit" =>
                      /\ results'[c][i] = returnValue(c)'[i]
                      /\ reportedPaths(results'[c][i]) \subseteq outputFiles']_vars

\* node b returns a hit on an entry that node a built: cross-node reuse
C18_Witness ==
    /\ envelopePc["b"] = "returned"
    /\ lookupLog["b"][1] = "hit"
    /\ cacheStore[cachePath("b", 1)].by = "a"
    /\ results["b"][1].outputs # cacheStore[cachePath("b", 1)].outputsByKey
    /\ resultDocuments
    /\ reportedPaths(results["b"][1]) \subseteq outputFiles

(***************************************************************************)
(* Properties of the worker pool                                           *)
(***************************************************************************)
\* the jobs handed to worker w whose promise is still pending
inFlight(w) == {j \in Jobs : dispatchedTo[j] = w /\ settled[j] = "pending"}

\* C19: a worker has at most one job in flight: at most one job handed to it
\* is unsettled and its thread holds at most one job, which is the job the
\* pool has recorded for it; over all workers at most poolSize jobs are in
\* flight.
C19_OneJobPerWorker ==
    /\ \A w \in Workers :
          /\ Cardinality(inFlight(w)) <= 1
          /\ Len(mailbox[w]) <= 1
          /\ mailbox[w] # <<>> => mailbox[w][1] = activeJobs[w]
    /\ Cardinality(UNION {inFlight(w) : w \in Workers}) <= poolSize

\* every worker is busy and a further job waits in the queue
C19_Witness ==
    /\ \A w \in Workers : Len(mailbox[w]) = 1 /\ Cardinality(inFlight(w)) = 1
    /\ queue # <<>>
    /\ \E j \in Jobs : settled[j] = "resolved"

\* C20: a job is never handed to a worker while a job submitted before it
\* still waits in the queue.
C20_DispatchInSubmissionOrder ==
    \A a \in Range(queue) : \A b \in Jobs : dispatchedTo[b] # NoWorker => b < a

\* the jobs that can no longer be settled: the pool has handed the job to a
\* worker whose thread has ended and no event of that worker is left to handle
lostJobs ==
    {j \in Jobs : /\ settled[j] = "pending"
                  /\ dispatchedTo[j] # NoWorker
                  /\ ~workerAlive[dispatchedTo[j]]
                  /\ events[dispatchedTo[j]] = <<>>}

\* C21: after a worker has failed with an uncaught error the pool stays
\* usable: as long as the pool is not terminated, no job is handed to a
\* worker that cannot settle it, so every dispatched job is in the hands of
\* a working worker.
C21_PoolUsableAfterWorkerError ==
    workers # <<>> => lostJobs = {}

\* C22: when terminate() is called, the future of every job that waits in
\* the queue is rejected.
C22_TerminateRejectsQueuedJobs ==
    [][(workers # <<>> /\ workers' = <<>>)
          => \A j \in Range(queue) : settled'[j] = "rejected"]_vars

\* C23: when every worker replies to each job it receives and terminate is
\* not called, every submitted job is eventually dispatched and its future
\* eventually resolved or rejected.
C23_EveryJobSettles ==
    \A j \in Jobs :
        (settled[j] = "pending") ~>
            (dispatchedTo[j] # NoWorker /\ settled[j] \in {"resolved", "rejected"})

\* every job has been submitted, more jobs than there are workers; one has
\* been rejected, one beyond the first poolSize has been dispatched, and one
\* still waits in the queue
C23_Witness ==
    /\ submitted = MaxJobs
    /\ queue # <<>>
    /\ \E j \in Jobs : settled[j] = "rejected"
    /\ \E j \in Jobs : j > poolSize /\ dispatchedTo[j] # NoWorker

(***************************************************************************)
(* Properties of the cache files                                           *)
(***************************************************************************)
\* a setCache call has opened the cache file sk and not yet written it
putInProgress(sk) ==
    \E d \in Callers : \E j \in 1..Len(items[d]) :
        setCacheState[d][j] = "open" /\ cachePath(d, j) = sk

\* caller c takes the step of Phase 1 that looks its item i up
looksUp(c, i) ==
    /\ envelopePc[c] = "lookup"
    /\ i = loopIndex[c]
    /\ i <= Len(items[c])
    /\ lookupLog'[c] # lookupLog[c]

\* C24: a get that overlaps a put for the same (contentSignature, cacheKey)
\* never finds the entry absent when a complete entry was stored before the
\* put.
C24_PutAtomicForReaders ==
    [][\A c \in Callers : \A i \in 1..Len(items[c]) :
          (/\ looksUp(c, i)
           /\ cacheStore[cachePath(c, i)] # NoEntry
           /\ putInProgress(cachePath(c, i)))
          => lookupLog'[c][i] # "no entry"]_vars

\* C25: a cache file that cannot be parsed is taken as absent, the item is a
\* miss and the loop goes on; a setCache call that fails makes withCache
\* throw, and withCache returns only with the entry of every miss written in
\* full.
C25_ReadErrorsAreMissesWriteErrorsPropagate ==
    [][\A c \in Callers :
          /\ \A i \in 1..Len(items[c]) :
                /\ (looksUp(c, i) /\ cachePath(c, i) \in truncated)
                      => /\ lookupLog'[c][i] = "no entry"
                         /\ cacheMisses'[c] = Append(cacheMisses[c], i)
                         /\ envelopePc'[c] = "lookup"
                /\ (/\ setCacheState[c][i] \in {"none", "open"}
                    /\ i \in DOMAIN setCacheState'[c]
                    /\ setCacheState'[c][i] = "failed")
                      => envelopePc'[c] = "threw"
          /\ (envelopePc[c] = "store" /\ envelopePc'[c] = "returned")
                => \A i \in Range(cacheMisses[c]) :
                      /\ cachePath(c, i) \notin truncated'
                      /\ cacheStore'[cachePath(c, i)] = processedItems[c][i].cacheEntry]_vars

\* a write of an earlier call failed with the file cut; a later call found the
\* file unparsable, counted the item as a miss and is at work on it
C25_Witness ==
    \E c \in Callers : \E i \in 1..Len(items[c]) :
        /\ envelopePc[c] = "work"
        /\ lookupLog[c][i] = "no entry"
        /\ cachePath(c, i) \in truncated
        /\ workState[c][i] = "running"

(***************************************************************************)
(* Properties of context.resolveInput                                      *)
(***************************************************************************)
\* the references of node n's config that resolveInput finds nothing for: the
\* producer has no entry in nodeOutputs, or its entry holds no path under the
\* referenced name
unresolvable(n) ==
    {ref \in processConfigValue(config[n]) :
        \/ ref.node \notin Nodes
        \/ nodeOutputs[ref.node] = Absent
        \/ ref.name \notin nodeOutputs[ref.node]}

\* C28: when a node resolves a node-output reference whose producer has no
\* entry in nodeOutputs or whose entry holds no path under the referenced
\* output name, resolveInput throws: the run of the node fails there.
C28_UnresolvableReferenceRaises ==
    [][\A n \in Nodes :
          (/\ nodeState[n] = "resolving"
           /\ nodeState'[n] # "resolving"
           /\ unresolvable(n) # {})
          => nodeState'[n] = "failed"]_vars

\* a node has failed on a reference to a producer that has not run yet
C28_Witness ==
    \E n \in Nodes : \E ref \in processConfigValue(config[n]) :
        /\ nodeState[n] = "failed"
        /\ failOrder = <<n>>
        /\ ref.node \in Nodes
        /\ runCount[ref.node] = 0
        /\ nodeOutputs[ref.node] = Absent

(***************************************************************************)
(* Properties of the wave-parallel strategy                                *)
(***************************************************************************)
\* C30: in wave-parallel mode the consumer of every dependency edge lies in a
\* wave with a strictly greater number than its producer, and a node whose run
\* has been started has every node of every lower-numbered wave completed.
C30_WavesRunInAscendingOrder ==
    (executionMode = "parallel" /\ ExecutionEntered) =>
        /\ \A e \in graph : getDepth(e[1]) > getDepth(e[2])
        /\ \A n \in Nodes : Started(n) =>
              \A m \in Nodes : getDepth(m) < getDepth(n) => nodeState[m] = "done"

\* a wave of two nodes has completed and the node of the next wave runs
C30_Witness ==
    /\ executionMode = "parallel"
    /\ \E n \in Nodes :
          /\ Running(n)
          /\ getDepth(n) = 1
          /\ Cardinality({m \in Nodes : getDepth(m) = 0 /\ nodeState[m] = "done"}) = 2

RECURSIVE sameEntries(_, _)
sameEntries(v, w) ==
    /\ v.kind = w.kind
    /\ Len(v.kids) = Len(w.kids)
    /\ CASE v.kind = "map" ->
              \A i \in 1..Len(v.kids) : \E j \in 1..Len(w.kids) :
                  /\ v.kids[i][1] = w.kids[j][1]
                  /\ sameEntries(v.kids[i][2], w.kids[j][2])
         [] v.kind = "list" ->
              \A i \in 1..Len(v.kids) : sameEntries(v.kids[i], w.kids[i])
         [] OTHER -> v = w

\* C26: two nodes of the same class whose configs hold the same entries, in
\* any key order at any nesting level, get the same content signature,
\* whatever their names, outputConfigs and explicitDependencies are and
\* whatever the producer they refer to has emitted.
C26_SameEntriesSameSignature ==
    (/\ contentSignatures[1] # NoSignature
     /\ contentSignatures[2] # NoSignature
     /\ signatureNodes[1].class = signatureNodes[2].class
     /\ sameEntries(value("map", "", "", signatureNodes[1].config),
                    value("map", "", "", signatureNodes[2].config)))
    => contentSignatures[1] = contentSignatures[2]

(***************************************************************************)
(* Properties of the output-path shaping                                   *)
(***************************************************************************)
\* C29: the structural manipulation applied is the first matching one of
\* flattenToBasename, stripPathPrefix and pathMapping: a configured
\* stripPathPrefix that does not match the cleaned path leaves the path to a
\* configured pathMapping, and with no match the cleaned path is kept.
C29_FirstMatchingManipulationApplied ==
    outputPath # <<>> =>
        outputPath = <<"b", "/">>
            \o finalFilename(processedPathFirstMatching(shapingInput[1], shapingInput[2]),
                             shapingInput[2])

(***************************************************************************)
(* Properties of the dynamic strategy                                      *)
(***************************************************************************)
\* C31: in dynamic mode, while no failure is recorded, after the kick-off
\* and after each node-completion callback no pending node has all its
\* dependencies completed: every such node was moved to inProgress and
\* started.
C31_ReadyNodesAreStarted ==
    [][(/\ executionMode = "dynamic"
        /\ Len(errors') = 0
        /\ \/ pc = "execute" /\ pc' = "waitLoop"
           \/ thenQueue' # thenQueue /\ thenQueue' \subseteq thenQueue)
       => \A n \in Range(executionOrder') :
             isReady(n)' => /\ n \notin pending'
                            /\ n \in inProgress' \cup completed'
                            /\ runCount'[n] >= 1]_vars

\* a callback has started two nodes at once
C31_Witness ==
    /\ executionMode = "dynamic"
    /\ pc = "waitLoop"
    /\ Len(errors) = 0
    /\ thenQueue = {}
    /\ completed # {}
    /\ Cardinality({n \in inProgress : dependenciesOf(n) # {}}) >= 2

\* C32: in dynamic mode on an acyclic graph, when every started node's run
\* finishes, executeDynamic returns or raises: without a failure all nodes
\* have completed, and after a failure the wait loop ends once no node is
\* in progress, pending nodes or not.
C32_ExecuteDynamicEnds ==
    /\ (executionMode = "dynamic" /\ pc = "execute") ~> pc = "finally"
    /\ [](executionMode = "dynamic" /\ pc = "finally" /\ Len(errors) = 0
            => runResult = NoError /\ completed = Range(executionOrder))
    /\ [](executionMode = "dynamic" /\ pc = "finally" /\ Len(errors) > 0
            => runResult # NoError)
    /\ [](/\ executionMode = "dynamic"
          /\ pc = "waitLoop"
          /\ Len(errors) > 0
          /\ inProgress = {}
          /\ thenQueue = {}
          => ENABLED waitLoopExit)

\* executeDynamic has raised while a node was still pending
C32_Witness ==
    /\ executionMode = "dynamic"
    /\ pc = "finally"
    /\ Len(errors) > 0
    /\ pending # {}
    /\ inProgress = {}

(***************************************************************************)
(* Properties of the nodeOutputs table                                     *)
(***************************************************************************)
\* C33: during a run the nodeOutputs entry of a node is written at most
\* once, at the moment its run returns successfully, and never changed or
\* removed afterwards; a node whose run failed has no entry, in dynamic mode
\* too, where it is in the completed set.
C33_NodeOutputsWrittenOnceOnSuccess ==
    /\ [][\A n \in Nodes :
             nodeOutputs'[n] # nodeOutputs[n]
                => /\ nodeOutputs[n] = Absent
                   /\ nodeState[n] = "working"
                   /\ nodeState'[n] = "done"]_vars
    /\ [](\A n \in Nodes : nodeOutputs[n] # Absent <=> nodeState[n] = "done")
    /\ [](\A n \in completed : nodeState[n] = "failed" => nodeOutputs[n] = Absent)

\* dynamic mode: a failed node is in the completed set next to a node that
\* has its entry
C33_Witness ==
    /\ executionMode = "dynamic"
    /\ \E n \in completed : nodeState[n] = "failed" /\ nodeOutputs[n] = Absent
    /\ \E n \in completed : nodeState[n] = "done" /\ nodeOutputs[n] = EmittedNames

(***************************************************************************)
(* Properties of the worker pool, continued                                *)
(***************************************************************************)
\* C34: between two handlers of the pool, a job waits in the queue only
\* while no worker is idle: a worker that stops working on a job, by a reply
\* or by an error event, is given the head of the queue in the same step.
C34_QueuedOnlyWhileNoWorkerIdle ==
    queue # <<>> => \A n \in 1..Len(workers) : ~isIdle(workers[n])

(***************************************************************************)
(* Properties of the recorded upstream signatures                          *)
(***************************************************************************)
\* C35: for every node-output reference of the config, the entry built after
\* a miss records an upstream signature for the producer, output name and
\* glob of that reference, also when two references name the same producer
\* with different output names or globs.
C35_EveryReferenceHasUpstreamSignature ==
    recordedUpstream.built =>
        \A i \in 1..Len(configReferences) :
            \E j \in 1..Len(recordedUpstream.upstreamSignatures) :
                LET recorded == recordedUpstream.upstreamSignatures[j]
                IN /\ recorded.nodeName = configReferences[i].node
                   /\ recorded.outputKey = configReferences[i].name
                   /\ recorded.glob = configReferences[i].glob
                   /\ recorded.signature =
                          computeOutputSignature(resolveInput(configReferences[i]))

(***************************************************************************)
(* Properties of the cache directory                                       *)
(***************************************************************************)
\* C36: a call of withCache deletes no cache entry: once the calls have
\* ended, every entry that existed before under any signature and key, the
\* keys of no current item and the signatures of other nodes included, can
\* still be read, as it was or as the new entry written under its key.
C36_NoEntryDeleted ==
    (\A c \in Callers :
        /\ envelopePc[c] \in {"returned", "threw"}
        /\ \A i \in 1..Len(items[c]) : setCacheState[c][i] # "open")
    => \A sk \in Signatures \X Keys : cacheStore[sk] # NoEntry => getCache(sk) # NoEntry

(***************************************************************************)
(* Properties of the job futures                                           *)
(***************************************************************************)
\* C37: a job future is settled with the reply, or the error event, that
\* the worker produced for the payload of that same job, never with that of
\* another job, whatever the order of execute calls, replies and error
\* events.
C37_SettledWithOwnReply ==
    \A j \in Jobs :
        /\ settled[j] \in {"resolved", "rejected"} => settledWith[j] = j
        /\ settledWith[j] \in {NoJob, j}

\* a queued job was handed to a worker that had replied to another job, and
\* both are settled; a third job was rejected by an error event
C37_Witness ==
    \E j \in Jobs, k \in Jobs, l \in Jobs :
        /\ j # k
        /\ dispatchedTo[j] = dispatchedTo[k]
        /\ settled[j] \in {"resolved", "rejected"}
        /\ settled[k] = "resolved"
        /\ settledWith[k] = k
        /\ l \notin {j, k}
        /\ settled[l] = "rejected"
        /\ \lnot workerAlive[dispatchedTo[l]]

(***************************************************************************)
(* Properties of the end of Pipeline.run                                   *)
(***************************************************************************)
\* C38: however Pipeline.run ends, by a normal return, a node failure or an
\* error raised during dependency setup (unknown dependency or cycle), the
\* supervisor timer is stopped and the worker pool is terminated.
C38_RunEndsWithCleanup ==
    pc \in {"returned", "raised"} => ~supervisorInterval /\ poolTerminated

\* C39: a job submitted with execute after terminate() was called has its
\* future rejected: it does not stay in the queue with a future that never
\* settles.
C39_ExecuteAfterTerminateRejected ==
    \A j \in Jobs :
        (workers = <<>> /\ j \in Range(queue)) ~> settled[j] = "rejected"

(***************************************************************************)
(* Properties of the cache file names                                      *)
(***************************************************************************)
\* C40: cache entries are isolated per key: a get under a signature and a
\* key returns only an entry that was put under exactly that signature and
\* that key, also for keys that differ only in letter case, in '/' versus
\* '-' or in characters that sanitisation removes.
C40_EntriesIsolatedPerKey ==
    gotten.entry # NoCacheFile =>
        /\ gotten.entry.signature = gotten.signature
        /\ gotten.entry.itemKey = gotten.itemKey

====
